---- MODULE Spec2Model ----
(***************************************************************************)
(* OxiDock backend: the SSH session registry (SshSessionManager), the      *)
(* per-session lazily initialised SFTP channel (SshSession::sftp, a tokio  *)
(* OnceCell) and the command handlers that route through them.             *)
(*                                                                         *)
(* Every async fn is a task that advances one await point (or one locked   *)
(* section) per step; pc[t] is the position of task t inside its handler.  *)
(***************************************************************************)
EXTENDS Integers, Sequences, FiniteSets, TLC

\* ------------------------------------------------------------------ bounds
NumTasks == 2        \* concurrent command handlers in Spec
NumCallers == 3      \* concurrent command handlers in SftpSpec
MaxIds == 2          \* session identifiers generated in one run
MaxFailures == 1     \* SFTP channel setup steps the environment lets fail
NumPaths == 2        \* remote paths the cache commands are called with
NumFiles == 3        \* file names a cache directory may hold in EvictSpec
NumSlots == 2        \* blocking-pool threads available to eviction closures
NumReqs == 1         \* concurrent cache commands in CacheSpec
MaxTime == 1         \* seconds the local clock advances
MaxIoFails == 1      \* read_dir and remove_file calls that fail in a directory
MaxCalls == 3        \* successive get_thumbnail calls in ThumbSpec
MaxLen == 3          \* bytes in a remote file in PreviewSpec and TransferSpec
MaxEntries == 4      \* entries in a read_dir reply in ListSpec

Ids == 1..MaxIds
KeyNames == {"k_plain", "k_enc", "k_bad", "k_none"}
\* the (host, user) pairs and the (key_name, passphrase) pairs connect is called
\* with; the passphrase "" is Option::None
Logins == {<<"h1", "u1">>, <<"h2", "u2">>}
Credentials == {<<"k_plain", "">>, <<"k_plain", "pw">>, <<"k_enc", "pw">>,
                <<"k_enc", "wrong">>, <<"k_enc", "">>, <<"k_bad", "">>,
                <<"k_none", "">>}

VARIABLES
    sessions,      \* SshSessionManager.sessions: id -> [host, user, handle]
    lock,          \* holder of the tokio Mutex around sessions, 0 = unlocked
    nextId,        \* identifiers generated so far
    pc,            \* task -> position in its handler
    op,            \* task -> handler it is running
    arg,           \* task -> the handler's inputs
    loc,           \* task -> the handler's local variables
    res,           \* task -> the handler's result once it is decided
    held,          \* task -> id of the Arc<SshSession> it holds, 0 = none
    sres,          \* task -> result of its SshSession::sftp() call
    cell,          \* id -> the session's OnceCell<SftpSession>
    opened,        \* id -> channels opened on the session's transport
    runs,          \* id -> times the init closure was started
    fails,         \* id -> init attempts that failed
    returned,      \* ids returned by successful connects, in order
    disconnected,  \* ids a disconnect has removed
    stale,         \* task -> its lookup was called after its id was disconnected
    regHist,       \* task -> registry contents since its list_sessions call
    files,         \* local directory -> file name -> [size, mtime, writers]
    evicting,      \* cache directory -> its *_EVICTION_RUNNING flag
    sweeps,        \* blocking-pool slot -> the eviction closure running on it
    now,           \* the local clock, in seconds
    ioFails,       \* cache directory -> a sweep's file-system calls that failed
    creq,          \* task -> inputs and locals of its get_thumbnail / cache_image
    server,        \* the SFTP server's files: remote path -> bytes
    uploaded,      \* remote path -> data of the upload that last wrote it alone
    farg,          \* task -> arguments of its sftp_ops function
    fout,          \* task -> value its sftp_ops function returned
    calls          \* the calls that have returned, in order (ThumbSpec, DisconnectSpec)

vars == <<sessions, lock, nextId, pc, op, arg, loc, res, held, sres, cell,
          opened, runs, fails, returned, disconnected, stale, regHist,
          files, evicting, sweeps, now, ioFails, creq,
          server, uploaded, farg, fout, calls>>

regVars == <<sessions, lock, nextId, returned, disconnected>>
cellVars == <<cell, opened, runs, fails>>
cacheVars == <<files, evicting, sweeps, now, ioFails>>
fileVars == <<server, uploaded, farg, fout, calls>>

\* ------------------------------------------------------------------ values
Tasks == DOMAIN pc

NoArg == [id |-> 0, host |-> "", user |-> "", key |-> "", pass |-> ""]
NoLoc == [pem |-> "", key |-> "", addr |-> "", handle |-> "none", id |-> 0,
          cursor |-> 0, acc |-> {}, ch |-> 0]
NoRes == [kind |-> "none", msg |-> "", id |-> 0, list |-> {}]
NoSres == [kind |-> "none", msg |-> "", ch |-> 0, ran |-> FALSE, waited |-> FALSE]

\* AppError's variants (errors.rs)
ErrKinds == {"Ssh", "Sftp", "KeyStore", "SessionNotFound", "Io", "Other"}

Ok == [NoRes EXCEPT !.kind = "Ok"]
OkId(i) == [NoRes EXCEPT !.kind = "Ok", !.id = i]
OkList(l) == [NoRes EXCEPT !.kind = "Ok", !.list = l]
Err(k, m) == [NoRes EXCEPT !.kind = k, !.msg = m]
SessionNotFound(i) == [NoRes EXCEPT !.kind = "SessionNotFound", !.id = i]

\* OnceCell::new(): no value, one permit, nobody queued, semaphore open
EmptyCell == [value |-> 0, closed |-> FALSE, permit |-> 0, queue |-> <<>>]

\* HashMap insert / remove on a function with a growing domain
Put(f, k, v) == [x \in DOMAIN f \cup {k} |-> IF x = k THEN v ELSE f[x]]
Drop(f, k) == [x \in DOMAIN f \ {k} |-> f[x]]

\* the credential vault as the session manager sees it: name -> stored PEM
Vault == [n \in KeyNames \ {"k_none"} |->
            CASE n = "k_plain" -> "plain"
              [] n = "k_enc" -> "encrypted"
              [] n = "k_bad" -> "malformed"]

\* the cache directories the commands create under the app cache directory
Dirs == {"thumbnails", "image_cache"}
THUMB_CACHE_MAX_BYTES == 50 * 1024 * 1024
IMAGE_CACHE_MAX_BYTES == 200 * 1024 * 1024
MaxBytes(d) == IF d = "thumbnails" THEN THUMB_CACHE_MAX_BYTES
               ELSE IMAGE_CACHE_MAX_BYTES

\* remote paths requested; the cache file name is an injective encoding of the
\* path (URL-safe base64 plus a suffix), so a file is named by its path here
Paths == 1..NumPaths
FileNames == 1..NumFiles
Slots == 1..NumSlots
Times == 0..MaxTime
\* Option<u64> remote_mtime: None, or a time in seconds
None == -1
\* lengths a file in directory d may have: two and three fifths of the budget
Sizes(d) == {(MaxBytes(d) \div 5) * 2, (MaxBytes(d) \div 5) * 3}
\* lengths of the data a download yields for directory d
DataSizes(d) == {(MaxBytes(d) \div 5) * 3}

NoFiles == [n \in {} |-> 0]
\* a cache command's path and remote_mtime, its fresh flag, the length of the
\* data it downloaded, and what it did: returned the cached entry (hit),
\* completed its write (wrote), started a sweep or found one running (sched)
NoCreq == [path |-> 0, remote |-> None, fresh |-> FALSE, data |-> 0,
           hit |-> FALSE, wrote |-> FALSE, sched |-> "none"]
DirOf(o) == IF o = "thumb" THEN "thumbnails" ELSE "image_cache"
\* an sftp_ops function's arguments: its path, the data to upload, max_bytes,
\* and the entries the server's read_dir reply holds
NoFarg == [path |-> 0, data |-> <<>>, max |-> 0, entries |-> <<>>]
NoServer == [p \in {} |-> <<>>]
CacheOps == {"thumb", "image"}
\* an eviction closure: its position, its directory, the files vector of
\* (path, size, mtime) in deletion order, the position in it, total_size and
\* freed, whether read_dir succeeded, and the names it has removed and failed
\* to remove so far
NoSweep == [pc |-> "free", dir |-> "", list |-> <<>>, idx |-> 1, total |-> 0,
            freed |-> 0, listed |-> FALSE, removed |-> {}, failed |-> {}]

\* ------------------------------------------------------------------ helpers
\* registry mutations are recorded for every list_sessions call in progress
NoteReg(new) ==
    regHist' = [u \in Tasks |-> IF op[u] = "list" /\ pc[u] # "ret"
                                THEN regHist[u] \cup {new}
                                ELSE regHist[u]]

\* Mutex::lock().await completes only when nobody holds the mutex
Acquire(t) == lock = 0 /\ lock' = t

\* the handler decides its result r and runs to its end (pc "ret")
Finish(t, r) ==
    /\ pc' = [pc EXCEPT ![t] = "ret"]
    /\ res' = [res EXCEPT ![t] = r]

\* connects that have not generated their identifier yet
PendingConnects == Cardinality({u \in Tasks : op[u] = "connect" /\ loc[u].id = 0})

\* ---------------------------------------------------- SshSessionManager::connect
ConnectCall(t, host, user, key, pass) ==
    /\ pc[t] = "idle"
    /\ nextId + PendingConnects < MaxIds
    /\ pc' = [pc EXCEPT ![t] = "c_vault"]
    /\ op' = [op EXCEPT ![t] = "connect"]
    /\ arg' = [arg EXCEPT ![t] = [NoArg EXCEPT !.host = host, !.user = user,
                                               !.key = key, !.pass = pass]]
    /\ UNCHANGED <<regVars, cellVars, loc, res, held, sres, stale, regHist>>
    /\ UNCHANGED <<cacheVars, creq, fileVars>>

\* key_store.retrieve_key_pem(key_name).await?
VaultRetrieve(t) ==
    /\ pc[t] = "c_vault"
    /\ \/ /\ arg[t].key \in DOMAIN Vault
          /\ loc' = [loc EXCEPT ![t].pem = Vault[arg[t].key]]
          /\ pc' = [pc EXCEPT ![t] = "c_decode"]
          /\ UNCHANGED res
       \/ /\ arg[t].key \notin DOMAIN Vault
          /\ Finish(t, Err("KeyStore", "Key not found"))
          /\ UNCHANGED loc
       \/ /\ Finish(t, Err("KeyStore", "vault unreadable"))
          /\ UNCHANGED loc
    /\ UNCHANGED <<regVars, cellVars, op, arg, held, sres, stale, regHist>>
    /\ UNCHANGED <<cacheVars, creq, fileVars>>

\* PrivateKey::from_openssh(pem) [.and_then(|k| k.decrypt(pass))]:
\* "usable", "locked" (an encrypted key nobody decrypted) or "err"
DecodeKey(pem, pass) ==
    IF pem = "malformed" THEN "err"
    ELSE IF pass # ""
         THEN (IF pem = "encrypted" /\ pass = "pw" THEN "usable" ELSE "err")
         ELSE (IF pem = "encrypted" THEN "locked" ELSE "usable")

\* a key decoded only when it is needed: a key that cannot be decoded goes on
\* to the network steps and fails at the authentication
ParseKeyLate(t) ==
    /\ pc[t] = "c_decode"
    /\ loc' = [loc EXCEPT ![t].key = DecodeKey(loc[t].pem, arg[t].pass)]
    /\ pc' = [pc EXCEPT ![t] = "c_resolve"]
    /\ UNCHANGED res
    /\ UNCHANGED <<regVars, cellVars, op, arg, held, sres, stale, regHist>>
    /\ UNCHANGED <<cacheVars, creq, fileVars>>

ParseKey(t) ==
    /\ pc[t] = "c_decode"
    /\ LET k == DecodeKey(loc[t].pem, arg[t].pass) IN
         IF k = "err"
         THEN /\ Finish(t, Err("Ssh", "Failed to decode key"))
              /\ UNCHANGED loc
         ELSE /\ loc' = [loc EXCEPT ![t].key = k]
              /\ pc' = [pc EXCEPT ![t] = "c_resolve"]
              /\ UNCHANGED res
    /\ UNCHANGED <<regVars, cellVars, op, arg, held, sres, stale, regHist>>
    /\ UNCHANGED <<cacheVars, creq, fileVars>>

\* a resolution failure reported with the message of a failed transport connect
ResolveAddrVague(t) ==
    /\ pc[t] = "c_resolve"
    /\ \/ /\ loc' = [loc EXCEPT ![t].addr = "resolved"]
          /\ pc' = [pc EXCEPT ![t] = "c_connect"]
          /\ UNCHANGED res
       \/ /\ Finish(t, Err("Ssh", "Connection failed"))
          /\ UNCHANGED loc
    /\ UNCHANGED <<regVars, cellVars, op, arg, held, sres, stale, regHist>>
    /\ UNCHANGED <<cacheVars, creq, fileVars>>

\* format!("{host}:{port}").to_socket_addrs()?.next().ok_or_else(..)?
ResolveAddr(t) ==
    /\ pc[t] = "c_resolve"
    /\ \/ /\ loc' = [loc EXCEPT ![t].addr = "resolved"]
          /\ pc' = [pc EXCEPT ![t] = "c_connect"]
          /\ UNCHANGED res
       \/ /\ Finish(t, Err("Ssh", "Failed to resolve host"))
          /\ UNCHANGED loc
       \/ /\ Finish(t, Err("Ssh", "Could not resolve host address"))
          /\ UNCHANGED loc
    /\ UNCHANGED <<regVars, cellVars, op, arg, held, sres, stale, regHist>>
    /\ UNCHANGED <<cacheVars, creq, fileVars>>

\* client::connect(config, addr, ClientHandler).await
TransportConnect(t) ==
    /\ pc[t] = "c_connect"
    /\ \/ /\ loc' = [loc EXCEPT ![t].handle = "connected"]
          /\ pc' = [pc EXCEPT ![t] = "c_hash"]
          /\ UNCHANGED res
       \/ /\ Finish(t, Err("Ssh", "Connection failed"))
          /\ UNCHANGED loc
    /\ UNCHANGED <<regVars, cellVars, op, arg, held, sres, stale, regHist>>
    /\ UNCHANGED <<cacheVars, creq, fileVars>>

\* handle.best_supported_rsa_hash().await.ok().flatten().flatten()
BestRsaHash(t) ==
    /\ pc[t] = "c_hash"
    /\ pc' = [pc EXCEPT ![t] = "c_auth"]
    /\ UNCHANGED <<regVars, cellVars, op, arg, loc, res, held, sres, stale, regHist>>
    /\ UNCHANGED <<cacheVars, creq, fileVars>>

\* Authenticate without the auth_result.success() test: a rejected login goes on
AuthenticateUnchecked(t) ==
    /\ pc[t] = "c_auth"
    /\ \/ /\ loc[t].key = "usable"
          /\ loc' = [loc EXCEPT ![t].handle = "authed"]
          /\ pc' = [pc EXCEPT ![t] = "c_build"]
          /\ UNCHANGED res
       \/ /\ Finish(t, Err("Ssh", "Auth failed"))
          /\ loc' = [loc EXCEPT ![t].handle = "none"]
       \/ /\ pc' = [pc EXCEPT ![t] = "c_build"]
          /\ UNCHANGED <<loc, res>>
    /\ UNCHANGED <<regVars, cellVars, op, arg, held, sres, stale, regHist>>
    /\ UNCHANGED <<cacheVars, creq, fileVars>>

\* handle.authenticate_publickey(user, key).await, then auth_result.success()
Authenticate(t) ==
    /\ pc[t] = "c_auth"
    /\ \/ /\ loc[t].key = "usable"
          /\ loc' = [loc EXCEPT ![t].handle = "authed"]
          /\ pc' = [pc EXCEPT ![t] = "c_build"]
          /\ UNCHANGED res
       \/ /\ Finish(t, Err("Ssh", "Auth failed"))
          /\ loc' = [loc EXCEPT ![t].handle = "none"]
       \/ /\ Finish(t, Err("Ssh", "Authentication rejected by server"))
          /\ loc' = [loc EXCEPT ![t].handle = "none"]
    /\ UNCHANGED <<regVars, cellVars, op, arg, held, sres, stale, regHist>>
    /\ UNCHANGED <<cacheVars, creq, fileVars>>

\* an identifier generator that hands out the lowest identifier not registered
NewUuidRecycled ==
    IF Ids \ DOMAIN sessions = {} THEN 1
    ELSE CHOOSE i \in Ids \ DOMAIN sessions : \A j \in Ids \ DOMAIN sessions : i <= j

\* Uuid::new_v4(): a value no earlier call produced
NewUuid == nextId + 1

\* a connection test that goes on like connect: it builds and registers a session
BuildSessionAnyOp(t) ==
    /\ pc[t] = "c_build"
    /\ LET id == NewUuid IN
         /\ loc' = [loc EXCEPT ![t].id = id]
         /\ cell' = [cell EXCEPT ![id] = EmptyCell]
         /\ opened' = [opened EXCEPT ![id] = 0]
         /\ runs' = [runs EXCEPT ![id] = 0]
         /\ fails' = [fails EXCEPT ![id] = 0]
    /\ nextId' = nextId + 1
    /\ pc' = [pc EXCEPT ![t] = "c_lock"]
    /\ UNCHANGED <<sessions, lock, returned, disconnected, op, arg, res, held,
                   sres, stale, regHist>>
    /\ UNCHANGED <<cacheVars, creq, fileVars>>

\* session_id = Uuid::new_v4(); session = Arc::new(SshSession { .., OnceCell::new() })
BuildSession(t) ==
    /\ pc[t] = "c_build"
    /\ op[t] = "connect"
    /\ LET id == NewUuid IN
         /\ loc' = [loc EXCEPT ![t].id = id]
         /\ cell' = [cell EXCEPT ![id] = EmptyCell]
         /\ opened' = [opened EXCEPT ![id] = 0]
         /\ runs' = [runs EXCEPT ![id] = 0]
         /\ fails' = [fails EXCEPT ![id] = 0]
    /\ nextId' = nextId + 1
    /\ pc' = [pc EXCEPT ![t] = "c_lock"]
    /\ UNCHANGED <<sessions, lock, returned, disconnected, op, arg, res, held,
                   sres, stale, regHist>>
    /\ UNCHANGED <<cacheVars, creq, fileVars>>

\* let mut sessions = self.sessions.lock().await;
ConnectLock(t) ==
    /\ pc[t] = "c_lock"
    /\ Acquire(t)
    /\ pc' = [pc EXCEPT ![t] = "c_insert"]
    /\ UNCHANGED <<sessions, nextId, returned, disconnected, cellVars, op, arg,
                   loc, res, held, sres, stale, regHist>>
    /\ UNCHANGED <<cacheVars, creq, fileVars>>

\* sessions.insert(session_id.clone(), session); Ok(session_id)
ConnectInsert(t) ==
    /\ pc[t] = "c_insert"
    /\ LET new == Put(sessions, loc[t].id,
                      [host |-> arg[t].host, user |-> arg[t].user,
                       handle |-> loc[t].handle]) IN
         /\ sessions' = new
         /\ NoteReg(new)
    /\ lock' = 0
    /\ returned' = Append(returned, loc[t].id)
    /\ Finish(t, OkId(loc[t].id))
    /\ UNCHANGED <<nextId, disconnected, cellVars, op, arg, loc, held, sres, stale>>
    /\ UNCHANGED <<cacheVars, creq, fileVars>>

\* ------------------------------------------------------------ ssh_test_connection
\* the command hands its inputs to the manager's connection test, which runs the
\* stages of connect from the vault lookup to the authentication
TestCall(t, host, user, key, pass) ==
    /\ pc[t] = "idle"
    /\ pc' = [pc EXCEPT ![t] = "c_vault"]
    /\ op' = [op EXCEPT ![t] = "test"]
    /\ arg' = [arg EXCEPT ![t] = [NoArg EXCEPT !.host = host, !.user = user,
                                               !.key = key, !.pass = pass]]
    /\ UNCHANGED <<regVars, cellVars, loc, res, held, sres, stale, regHist>>
    /\ UNCHANGED <<cacheVars, creq, fileVars>>

\* the authenticated handle is discarded at once and Ok(()) returned
TestDiscard(t) ==
    /\ pc[t] = "c_build"
    /\ op[t] = "test"
    /\ Finish(t, Ok)
    /\ UNCHANGED <<regVars, cellVars, op, arg, loc, held, sres, stale, regHist>>
    /\ UNCHANGED <<cacheVars, creq, fileVars>>

\* ------------------------------------------------- SshSessionManager::disconnect
DisconnectCall(t, id) ==
    /\ pc[t] = "idle"
    /\ pc' = [pc EXCEPT ![t] = "d_lock"]
    /\ op' = [op EXCEPT ![t] = "disconnect"]
    /\ arg' = [arg EXCEPT ![t] = [NoArg EXCEPT !.id = id]]
    /\ UNCHANGED <<regVars, cellVars, loc, res, held, sres, stale, regHist>>
    /\ UNCHANGED <<cacheVars, creq, fileVars>>

\* let mut sessions = self.sessions.lock().await;
DisconnectLock(t) ==
    /\ pc[t] = "d_lock"
    /\ Acquire(t)
    /\ pc' = [pc EXCEPT ![t] = "d_remove"]
    /\ UNCHANGED <<sessions, nextId, returned, disconnected, cellVars, op, arg,
                   loc, res, held, sres, stale, regHist>>
    /\ UNCHANGED <<cacheVars, creq, fileVars>>

\* an idempotent disconnect: Ok(()) whether or not the entry was there
DisconnectRemoveIdempotent(t) ==
    /\ pc[t] = "d_remove"
    /\ LET id == arg[t].id IN
         /\ sessions' = Drop(sessions, id)
         /\ NoteReg(Drop(sessions, id))
         /\ disconnected' = IF id \in DOMAIN sessions THEN disconnected \cup {id}
                            ELSE disconnected
         /\ Finish(t, Ok)
    /\ lock' = 0
    /\ UNCHANGED <<nextId, returned, cellVars, op, arg, loc, held, sres, stale>>
    /\ UNCHANGED <<cacheVars, creq, fileVars>>

\* a disconnect that also tears down the session's SFTP channel
DisconnectRemoveCloses(t) ==
    /\ pc[t] = "d_remove"
    /\ LET id == arg[t].id IN
         IF id \in DOMAIN sessions
         THEN /\ sessions' = Drop(sessions, id)
              /\ NoteReg(Drop(sessions, id))
              /\ disconnected' = disconnected \cup {id}
              /\ cell' = [cell EXCEPT ![id].value = 0, ![id].closed = FALSE]
              /\ Finish(t, Ok)
         ELSE /\ Finish(t, SessionNotFound(id))
              /\ UNCHANGED <<sessions, disconnected, regHist, cell>>
    /\ lock' = 0
    /\ UNCHANGED <<nextId, returned, opened, runs, fails, op, arg, loc, held, sres, stale>>
    /\ UNCHANGED <<cacheVars, creq, fileVars>>

\* a disconnect that empties the registry
DisconnectRemoveAll(t) ==
    /\ pc[t] = "d_remove"
    /\ LET id == arg[t].id IN
         IF id \in DOMAIN sessions
         THEN /\ sessions' = [i \in {} |-> 0]
              /\ NoteReg([i \in {} |-> 0])
              /\ disconnected' = disconnected \cup DOMAIN sessions
              /\ Finish(t, Ok)
         ELSE /\ Finish(t, SessionNotFound(id))
              /\ UNCHANGED <<sessions, disconnected, regHist>>
    /\ lock' = 0
    /\ UNCHANGED <<nextId, returned, cellVars, op, arg, loc, held, sres, stale>>
    /\ UNCHANGED <<cacheVars, creq, fileVars>>

\* if sessions.remove(id).is_some() { Ok(()) } else { Err(SessionNotFound) }
DisconnectRemove(t) ==
    /\ pc[t] = "d_remove"
    /\ LET id == arg[t].id IN
         IF id \in DOMAIN sessions
         THEN /\ sessions' = Drop(sessions, id)
              /\ NoteReg(Drop(sessions, id))
              /\ disconnected' = disconnected \cup {id}
              /\ Finish(t, Ok)
         ELSE /\ Finish(t, SessionNotFound(id))
              /\ UNCHANGED <<sessions, disconnected, regHist>>
    /\ lock' = 0
    /\ UNCHANGED <<nextId, returned, cellVars, op, arg, loc, held, sres, stale>>
    /\ UNCHANGED <<cacheVars, creq, fileVars>>

\* ---------------------------------------------- SshSessionManager::list_sessions
ListCall(t) ==
    /\ pc[t] = "idle"
    /\ pc' = [pc EXCEPT ![t] = "l_lock"]
    /\ op' = [op EXCEPT ![t] = "list"]
    /\ regHist' = [regHist EXCEPT ![t] = {sessions}]
    /\ UNCHANGED <<regVars, cellVars, arg, loc, res, held, sres, stale>>
    /\ UNCHANGED <<cacheVars, creq, fileVars>>

\* list_sessions iterating without taking the mutex
ListLockSkipped(t) ==
    /\ pc[t] = "l_lock"
    /\ pc' = [pc EXCEPT ![t] = "l_iter"]
    /\ UNCHANGED <<regVars, cellVars, op, arg, loc, res, held, sres, stale, regHist>>
    /\ UNCHANGED <<cacheVars, creq, fileVars>>

\* let sessions = self.sessions.lock().await;
ListLock(t) ==
    /\ pc[t] = "l_lock"
    /\ Acquire(t)
    /\ pc' = [pc EXCEPT ![t] = "l_iter"]
    /\ UNCHANGED <<sessions, nextId, returned, disconnected, cellVars, op, arg,
                   loc, res, held, sres, stale, regHist>>
    /\ UNCHANGED <<cacheVars, creq, fileVars>>

\* one turn of sessions.iter().map(|(id, s)| (id, s.host, s.user))
ListStep(t) ==
    /\ pc[t] = "l_iter"
    /\ loc[t].cursor < MaxIds
    /\ LET id == loc[t].cursor + 1 IN
         loc' = [loc EXCEPT ![t].cursor = id,
                            ![t].acc = IF id \in DOMAIN sessions
                                       THEN @ \cup {<<id, sessions[id].host,
                                                      sessions[id].user>>}
                                       ELSE @]
    /\ UNCHANGED <<regVars, cellVars, pc, op, arg, res, held, sres, stale, regHist>>
    /\ UNCHANGED <<cacheVars, creq, fileVars>>

\* .collect(), and the guard is dropped as the function returns
ListCollect(t) ==
    /\ pc[t] = "l_iter"
    /\ loc[t].cursor = MaxIds
    /\ lock' = IF lock = t THEN 0 ELSE lock
    /\ Finish(t, OkList(loc[t].acc))
    /\ UNCHANGED <<sessions, nextId, returned, disconnected, cellVars, op, arg,
                   loc, held, sres, stale, regHist>>
    /\ UNCHANGED <<cacheVars, creq, fileVars>>

\* ----------------------- a file command: get_session, then an sftp_ops function
FileCall(t, id) ==
    /\ pc[t] = "idle"
    /\ pc' = [pc EXCEPT ![t] = "g_lock"]
    /\ op' = [op EXCEPT ![t] = "file"]
    /\ arg' = [arg EXCEPT ![t] = [NoArg EXCEPT !.id = id]]
    /\ stale' = [stale EXCEPT ![t] = id \in disconnected]
    /\ UNCHANGED <<regVars, cellVars, loc, res, held, sres, regHist>>
    /\ UNCHANGED <<cacheVars, creq, fileVars>>

\* where a command goes with the session it looked up: a file command calls
\* sftp() first, a cache command looks at its cache file first
AfterLookup(t) == IF op[t] \in CacheOps THEN "k_exists" ELSE "s_call"

\* let sessions = self.sessions.lock().await;
GetLock(t) ==
    /\ pc[t] = "g_lock"
    /\ Acquire(t)
    /\ pc' = [pc EXCEPT ![t] = "g_lookup"]
    /\ UNCHANGED <<sessions, nextId, returned, disconnected, cellVars, op, arg,
                   loc, res, held, sres, stale, regHist>>
    /\ UNCHANGED <<cacheVars, creq, fileVars>>

\* a lookup that reports an unknown id as a transport error
GetLookupAsSftp(t) ==
    /\ pc[t] = "g_lookup"
    /\ LET id == arg[t].id IN
         IF id \in DOMAIN sessions
         THEN /\ held' = [held EXCEPT ![t] = id]
              /\ pc' = [pc EXCEPT ![t] = AfterLookup(t)]
              /\ UNCHANGED res
         ELSE /\ Finish(t, Err("Sftp", "no such session"))
              /\ UNCHANGED held
    /\ lock' = 0
    /\ UNCHANGED <<sessions, nextId, returned, disconnected, cellVars, op, arg,
                   loc, sres, stale, regHist>>
    /\ UNCHANGED <<cacheVars, creq, fileVars>>

\* a lookup whose guard outlives the function: the mutex stays locked
GetLookupKeepsLock(t) ==
    /\ pc[t] = "g_lookup"
    /\ LET id == arg[t].id IN
         IF id \in DOMAIN sessions
         THEN /\ held' = [held EXCEPT ![t] = id]
              /\ pc' = [pc EXCEPT ![t] = AfterLookup(t)]
              /\ UNCHANGED <<res, lock>>
         ELSE /\ Finish(t, SessionNotFound(id))
              /\ lock' = 0
              /\ UNCHANGED held
    /\ UNCHANGED <<sessions, nextId, returned, disconnected, cellVars, op, arg,
                   loc, sres, stale, regHist>>
    /\ UNCHANGED <<cacheVars, creq, fileVars>>

\* sessions.get(id).cloned().ok_or_else(|| SessionNotFound(id)), guard dropped
GetLookup(t) ==
    /\ pc[t] = "g_lookup"
    /\ LET id == arg[t].id IN
         IF id \in DOMAIN sessions
         THEN /\ held' = [held EXCEPT ![t] = id]
              /\ pc' = [pc EXCEPT ![t] = AfterLookup(t)]
              /\ UNCHANGED res
         ELSE /\ Finish(t, SessionNotFound(id))
              /\ UNCHANGED held
    /\ lock' = 0
    /\ UNCHANGED <<sessions, nextId, returned, disconnected, cellVars, op, arg,
                   loc, sres, stale, regHist>>
    /\ UNCHANGED <<cacheVars, creq, fileVars>>

\* the command handler returns: its locals and its Arc are dropped; c is the
\* record of returned get_thumbnail calls from then on
ReturnWith(t, c) ==
    /\ pc[t] = "ret"
    /\ pc' = [pc EXCEPT ![t] = "idle"]
    /\ op' = [op EXCEPT ![t] = "none"]
    /\ arg' = [arg EXCEPT ![t] = NoArg]
    /\ loc' = [loc EXCEPT ![t] = NoLoc]
    /\ res' = [res EXCEPT ![t] = NoRes]
    /\ held' = [held EXCEPT ![t] = 0]
    /\ sres' = [sres EXCEPT ![t] = NoSres]
    /\ stale' = [stale EXCEPT ![t] = FALSE]
    /\ regHist' = [regHist EXCEPT ![t] = {}]
    /\ creq' = [creq EXCEPT ![t] = NoCreq]
    /\ farg' = [farg EXCEPT ![t] = NoFarg]
    /\ fout' = [fout EXCEPT ![t] = None]
    /\ calls' = c
    /\ UNCHANGED <<regVars, cellVars, cacheVars, server, uploaded>>

Return(t) == ReturnWith(t, calls)

\* ------------------------------------------- SshSession::sftp (a tokio OnceCell)
RECURSIVE SumTo(_, _)
SumTo(f, n) == IF n = 0 THEN 0 ELSE f[n] + SumTo(f, n - 1)
\* the environment fails at most MaxFailures setup steps
MayFail == SumTo(fails, MaxIds) < MaxFailures

Without(q, t) == SelectSeq(q, LAMBDA x : x # t)

\* get_or_try_init: if self.initialized() { Ok(value) } else { acquire ... }
SftpCall(t) ==
    /\ pc[t] = "s_call"
    /\ LET s == held[t] IN
         IF cell[s].value # 0
         THEN /\ sres' = [sres EXCEPT ![t] = [NoSres EXCEPT !.kind = "Ok",
                                                            !.ch = cell[s].value]]
              /\ pc' = [pc EXCEPT ![t] = "f_req"]
         ELSE /\ sres' = [sres EXCEPT ![t] = NoSres]
              /\ pc' = [pc EXCEPT ![t] = "s_acquire"]
    /\ UNCHANGED <<regVars, cellVars, op, arg, loc, res, held, stale, regHist>>
    /\ UNCHANGED <<cacheVars, creq, fileVars>>

\* check-then-act instead of a semaphore: whoever saw no value runs the closure
SemAcquireRacy(t) ==
    /\ pc[t] = "s_acquire"
    /\ cell' = [cell EXCEPT ![held[t]].permit = t]
    /\ runs' = [runs EXCEPT ![held[t]] = @ + 1]
    /\ sres' = [sres EXCEPT ![t].ran = TRUE]
    /\ pc' = [pc EXCEPT ![t] = "s_open"]
    /\ UNCHANGED <<regVars, opened, fails, op, arg, loc, res, held, stale, regHist>>
    /\ UNCHANGED <<cacheVars, creq, fileVars>>

\* self.semaphore.acquire().await: Err once the semaphore is closed (the value
\* is set), the permit when it is free, else the caller queues behind the holder
SemAcquire(t) ==
    /\ pc[t] = "s_acquire"
    /\ LET s == held[t] IN
         IF cell[s].closed
         THEN /\ sres' = [sres EXCEPT ![t].kind = "Ok", ![t].ch = cell[s].value]
              /\ pc' = [pc EXCEPT ![t] = "f_req"]
              /\ UNCHANGED <<cell, runs>>
         ELSE IF cell[s].permit = 0
         THEN /\ cell' = [cell EXCEPT ![s].permit = t]
              /\ runs' = [runs EXCEPT ![s] = @ + 1]
              /\ sres' = [sres EXCEPT ![t].ran = TRUE]
              /\ pc' = [pc EXCEPT ![t] = "s_open"]
         ELSE /\ cell' = [cell EXCEPT ![s].queue = Append(@, t)]
              /\ sres' = [sres EXCEPT ![t].waited = TRUE]
              /\ pc' = [pc EXCEPT ![t] = "s_wait"]
              /\ UNCHANGED runs
    /\ UNCHANGED <<regVars, opened, fails, op, arg, loc, res, held, stale, regHist>>
    /\ UNCHANGED <<cacheVars, creq, fileVars>>

\* a queued acquire() is woken with Err by semaphore.close(): the value is set
SemWake(t) ==
    /\ pc[t] = "s_wait"
    /\ LET s == held[t] IN
         /\ cell[s].closed
         /\ cell' = [cell EXCEPT ![s].queue = Without(@, t)]
         /\ sres' = [sres EXCEPT ![t].kind = "Ok", ![t].ch = cell[s].value]
    /\ pc' = [pc EXCEPT ![t] = "f_req"]
    /\ UNCHANGED <<regVars, opened, runs, fails, op, arg, loc, res, held, stale,
                   regHist>>
    /\ UNCHANGED <<cacheVars, creq, fileVars>>

\* a failure handed to every queued caller as well, none of which retries
InitFailBroadcast(t, msg) ==
    LET s == held[t]
        q == cell[s].queue
        W == {q[i] : i \in DOMAIN q} \cup {t} IN
    /\ fails' = [fails EXCEPT ![s] = @ + 1]
    /\ res' = [u \in Tasks |-> IF u \in W THEN Err("Sftp", msg) ELSE res[u]]
    /\ loc' = [loc EXCEPT ![t].ch = 0]
    /\ cell' = [cell EXCEPT ![s].permit = 0, ![s].queue = <<>>]
    /\ pc' = [u \in Tasks |-> IF u \in W THEN "ret" ELSE pc[u]]
    /\ sres' = [u \in Tasks |-> IF u \in W
                                 THEN [sres[u] EXCEPT !.kind = "Sftp", !.msg = msg]
                                 ELSE sres[u]]
    /\ UNCHANGED runs

\* a failure stored in the cell: the semaphore is closed with no value set
InitFailCached(t, msg) ==
    LET s == held[t] IN
    /\ fails' = [fails EXCEPT ![s] = @ + 1]
    /\ res' = [res EXCEPT ![t] = Err("Sftp", msg)]
    /\ loc' = [loc EXCEPT ![t].ch = 0]
    /\ cell' = [cell EXCEPT ![s].permit = 0, ![s].closed = TRUE]
    /\ pc' = [pc EXCEPT ![t] = "ret"]
    /\ sres' = [sres EXCEPT ![t].kind = "Sftp", ![t].msg = msg]
    /\ UNCHANGED runs

\* the closure returns Err(AppError::Sftp(msg)): sftp() and the command return it,
\* the permit is dropped and passes to the first queued caller, which then runs
\* the closure itself
InitFail(t, msg) ==
    LET s == held[t]
        q == cell[s].queue IN
    /\ fails' = [fails EXCEPT ![s] = @ + 1]
    /\ res' = [res EXCEPT ![t] = Err("Sftp", msg)]
    /\ loc' = [loc EXCEPT ![t].ch = 0]
    /\ IF q = <<>>
       THEN /\ cell' = [cell EXCEPT ![s].permit = 0]
            /\ pc' = [pc EXCEPT ![t] = "ret"]
            /\ sres' = [sres EXCEPT ![t].kind = "Sftp", ![t].msg = msg]
            /\ UNCHANGED runs
       ELSE /\ cell' = [cell EXCEPT ![s].permit = Head(q), ![s].queue = Tail(q)]
            /\ pc' = [pc EXCEPT ![t] = "ret", ![Head(q)] = "s_open"]
            /\ sres' = [sres EXCEPT ![t].kind = "Sftp", ![t].msg = msg,
                                    ![Head(q)].ran = TRUE]
            /\ runs' = [runs EXCEPT ![s] = @ + 1]

\* self.handle.channel_open_session().await
ChannelOpen(t) ==
    /\ pc[t] = "s_open"
    /\ \/ /\ opened' = [opened EXCEPT ![held[t]] = @ + 1]
          /\ loc' = [loc EXCEPT ![t].ch = opened[held[t]] + 1]
          /\ pc' = [pc EXCEPT ![t] = "s_subsys"]
          /\ UNCHANGED <<cell, runs, fails, res, sres>>
       \/ /\ MayFail
          /\ InitFail(t, "Failed to open channel")
          /\ UNCHANGED opened
    /\ UNCHANGED <<regVars, op, arg, held, stale, regHist>>
    /\ UNCHANGED <<cacheVars, creq, fileVars>>

\* channel.request_subsystem(true, "sftp").await
RequestSubsystem(t) ==
    /\ pc[t] = "s_subsys"
    /\ \/ /\ pc' = [pc EXCEPT ![t] = "s_handshake"]
          /\ UNCHANGED <<cell, runs, fails, loc, res, sres>>
       \/ /\ MayFail
          /\ InitFail(t, "Failed to request sftp subsystem")
    /\ UNCHANGED <<regVars, opened, op, arg, held, stale, regHist>>
    /\ UNCHANGED <<cacheVars, creq, fileVars>>

\* a handshake whose session is returned but never stored in the cell
HandshakeNotStored(t) ==
    /\ pc[t] = "s_handshake"
    /\ cell' = [cell EXCEPT ![held[t]].permit = 0]
    /\ sres' = [sres EXCEPT ![t].kind = "Ok", ![t].ch = loc[t].ch]
    /\ pc' = [pc EXCEPT ![t] = "f_req"]
    /\ UNCHANGED <<regVars, opened, runs, fails, loc, res, op, arg, held, stale,
                   regHist>>
    /\ UNCHANGED <<cacheVars, creq, fileVars>>

\* SftpSession::new(channel.into_stream()).await, then OnceCell::set_value:
\* the value is stored and the semaphore closed
Handshake(t) ==
    /\ pc[t] = "s_handshake"
    /\ \/ /\ cell' = [cell EXCEPT ![held[t]].value = loc[t].ch,
                                  ![held[t]].closed = TRUE,
                                  ![held[t]].permit = 0]
          /\ sres' = [sres EXCEPT ![t].kind = "Ok", ![t].ch = loc[t].ch]
          /\ pc' = [pc EXCEPT ![t] = "f_req"]
          /\ UNCHANGED <<runs, fails, loc, res>>
       \/ /\ MayFail
          /\ InitFail(t, "Failed to init SFTP session")
    /\ UNCHANGED <<regVars, opened, op, arg, held, stale, regHist>>
    /\ UNCHANGED <<cacheVars, creq, fileVars>>

\* the sftp_ops function's request on the channel: sftp.read_dir(path).await ...
FileRequest(t) ==
    /\ pc[t] = "f_req"
    /\ op[t] = "file"
    /\ \/ Finish(t, Ok)
       \/ Finish(t, Err("Sftp", "request failed"))
    /\ UNCHANGED <<regVars, cellVars, op, arg, loc, held, sres, stale, regHist>>
    /\ UNCHANGED <<cacheVars, creq, fileVars>>

\* ------------------------------------------------------------ evict_cache_lru
\* the (path, size, mtime) triples of the regular files read_dir yields
ReadDir(d) ==
    {[name |-> n, size |-> files[d][n].size, mtime |-> files[d][n].mtime] :
        n \in DOMAIN files[d]}

RECURSIVE TotalSize(_)
TotalSize(E) ==
    IF E = {} THEN 0
    ELSE LET e == CHOOSE x \in E : TRUE IN e.size + TotalSize(E \ {e})

\* the orders a vector of the entries E can have
Orders(E) ==
    {l \in [1..Cardinality(E) -> E] : \A i, j \in DOMAIN l : i # j => l[i] # l[j]}

\* a vector left in the order read_dir produced
Unsorted(E) == Orders(E)

\* files.sort_by_key(mtime): read_dir yields the entries in any order and the
\* sort is stable, so every order with non-decreasing mtime can result
SortByMtime(E) ==
    {l \in Orders(E) : \A i, j \in DOMAIN l : i < j => l[i].mtime <= l[j].mtime}

\* the closure starts: read_dir, the loop that sums the sizes, the budget test
\* and the sort
SweepEnumerate(w) ==
    /\ sweeps[w].pc = "spawned"
    /\ LET d == sweeps[w].dir
           E == ReadDir(d) IN
         \/ \* read_dir failed: return
            /\ ioFails[d] < MaxIoFails
            /\ ioFails' = [ioFails EXCEPT ![d] = @ + 1]
            /\ sweeps' = [sweeps EXCEPT ![w].pc = "clear"]
         \/ /\ TotalSize(E) <= MaxBytes(d)
            /\ UNCHANGED ioFails
            /\ sweeps' = [sweeps EXCEPT ![w].pc = "clear", ![w].listed = TRUE,
                                        ![w].total = TotalSize(E)]
         \/ /\ TotalSize(E) > MaxBytes(d)
            /\ UNCHANGED ioFails
            /\ \E l \in SortByMtime(E) :
                  sweeps' = [sweeps EXCEPT ![w].pc = "delete", ![w].list = l,
                                          ![w].listed = TRUE,
                                          ![w].total = TotalSize(E)]
    /\ UNCHANGED <<files, evicting, now>>
    /\ UNCHANGED <<regVars, cellVars, pc, op, arg, loc, res, held, sres, stale,
                   regHist, creq>>
    /\ UNCHANGED fileVars

\* a loop that stops after the first file it removed
SweepDeleteOnce(w) ==
    /\ sweeps[w].pc = "delete"
    /\ LET d == sweeps[w].dir
           i == sweeps[w].idx
           to_free == sweeps[w].total - MaxBytes(d) IN
         IF i > Len(sweeps[w].list) \/ sweeps[w].freed > 0
         THEN /\ sweeps' = [sweeps EXCEPT ![w].pc = "clear"]
              /\ UNCHANGED <<files, ioFails>>
         ELSE LET e == sweeps[w].list[i] IN
              \/ /\ e.name \in DOMAIN files[d]
                 /\ files' = [files EXCEPT ![d] = Drop(@, e.name)]
                 /\ UNCHANGED ioFails
                 /\ sweeps' = [sweeps EXCEPT ![w].idx = i + 1,
                                             ![w].freed = @ + e.size,
                                             ![w].removed = @ \cup {e.name}]
              \/ /\ \/ e.name \notin DOMAIN files[d]
                    \/ ioFails[d] < MaxIoFails
                 /\ ioFails' = [ioFails EXCEPT ![d] = @ + 1]
                 /\ sweeps' = [sweeps EXCEPT ![w].idx = i + 1,
                                             ![w].failed = @ \cup {e.name}]
                 /\ UNCHANGED files
    /\ UNCHANGED <<evicting, now>>
    /\ UNCHANGED <<regVars, cellVars, pc, op, arg, loc, res, held, sres, stale,
                   regHist, creq>>
    /\ UNCHANGED fileVars

\* a loop that counts a file as freed whether or not remove_file succeeded
SweepDeleteCountsFailed(w) ==
    /\ sweeps[w].pc = "delete"
    /\ LET d == sweeps[w].dir
           i == sweeps[w].idx
           to_free == sweeps[w].total - MaxBytes(d) IN
         IF i > Len(sweeps[w].list) \/ sweeps[w].freed >= to_free
         THEN /\ sweeps' = [sweeps EXCEPT ![w].pc = "clear"]
              /\ UNCHANGED <<files, ioFails>>
         ELSE LET e == sweeps[w].list[i] IN
              \/ /\ e.name \in DOMAIN files[d]
                 /\ files' = [files EXCEPT ![d] = Drop(@, e.name)]
                 /\ UNCHANGED ioFails
                 /\ sweeps' = [sweeps EXCEPT ![w].idx = i + 1,
                                             ![w].freed = @ + e.size,
                                             ![w].removed = @ \cup {e.name}]
              \/ /\ \/ e.name \notin DOMAIN files[d]
                    \/ ioFails[d] < MaxIoFails
                 /\ ioFails' = [ioFails EXCEPT ![d] = @ + 1]
                 /\ sweeps' = [sweeps EXCEPT ![w].idx = i + 1,
                                             ![w].freed = @ + e.size,
                                             ![w].failed = @ \cup {e.name}]
                 /\ UNCHANGED files
    /\ UNCHANGED <<evicting, now>>
    /\ UNCHANGED <<regVars, cellVars, pc, op, arg, loc, res, held, sres, stale,
                   regHist, creq>>
    /\ UNCHANGED fileVars

\* one turn of the loop over the sorted vector: break once freed >= to_free,
\* else remove_file(path), which fails when the file is gone or when the
\* file system refuses; only a removed file's size is added to freed
SweepDelete(w) ==
    /\ sweeps[w].pc = "delete"
    /\ LET d == sweeps[w].dir
           i == sweeps[w].idx
           to_free == sweeps[w].total - MaxBytes(d) IN
         IF i > Len(sweeps[w].list) \/ sweeps[w].freed >= to_free
         THEN /\ sweeps' = [sweeps EXCEPT ![w].pc = "clear"]
              /\ UNCHANGED <<files, ioFails>>
         ELSE LET e == sweeps[w].list[i] IN
              \/ /\ e.name \in DOMAIN files[d]
                 /\ files' = [files EXCEPT ![d] = Drop(@, e.name)]
                 /\ UNCHANGED ioFails
                 /\ sweeps' = [sweeps EXCEPT ![w].idx = i + 1,
                                             ![w].freed = @ + e.size,
                                             ![w].removed = @ \cup {e.name}]
              \/ /\ \/ e.name \notin DOMAIN files[d]
                    \/ ioFails[d] < MaxIoFails
                 /\ ioFails' = [ioFails EXCEPT ![d] = @ + 1]
                 /\ sweeps' = [sweeps EXCEPT ![w].idx = i + 1,
                                             ![w].failed = @ \cup {e.name}]
                 /\ UNCHANGED files
    /\ UNCHANGED <<evicting, now>>
    /\ UNCHANGED <<regVars, cellVars, pc, op, arg, loc, res, held, sres, stale,
                   regHist, creq>>
    /\ UNCHANGED fileVars

\* a closure that returns without storing false in the flag
SweepClearKeepsFlag(w) ==
    /\ sweeps[w].pc = "clear"
    /\ sweeps' = [sweeps EXCEPT ![w] = NoSweep]
    /\ UNCHANGED <<files, evicting, now, ioFails>>
    /\ UNCHANGED <<regVars, cellVars, pc, op, arg, loc, res, held, sres, stale,
                   regHist, creq>>
    /\ UNCHANGED fileVars

\* evict_cache_lru has returned: *_EVICTION_RUNNING.store(false), closure ends
SweepClear(w) ==
    /\ sweeps[w].pc = "clear"
    /\ evicting' = [evicting EXCEPT ![sweeps[w].dir] = FALSE]
    /\ sweeps' = [sweeps EXCEPT ![w] = NoSweep]
    /\ UNCHANGED <<files, now, ioFails>>
    /\ UNCHANGED <<regVars, cellVars, pc, op, arg, loc, res, held, sres, stale,
                   regHist, creq>>
    /\ UNCHANGED fileVars

SweepStep(w) ==
    \/ SweepEnumerate(w)
    \/ SweepDelete(w)
    \/ SweepClear(w)

\* --------------------------------- sftp_get_thumbnail / sftp_cache_image
\* the command creates its cache directory if need be and looks the session up,
\* then calls get_thumbnail(session, path, _, dir, remote_mtime)
ThumbCall(t, id, path, remote) ==
    /\ pc[t] = "idle"
    /\ pc' = [pc EXCEPT ![t] = "g_lock"]
    /\ op' = [op EXCEPT ![t] = "thumb"]
    /\ arg' = [arg EXCEPT ![t] = [NoArg EXCEPT !.id = id]]
    /\ creq' = [creq EXCEPT ![t] = [NoCreq EXCEPT !.path = path, !.remote = remote]]
    /\ stale' = [stale EXCEPT ![t] = id \in disconnected]
    /\ UNCHANGED <<regVars, cellVars, cacheVars, loc, res, held, sres, regHist>>
    /\ UNCHANGED fileVars

\* ... or cache_image(session, path, dir, remote_mtime)
ImageCall(t, id, path, remote) ==
    /\ pc[t] = "idle"
    /\ pc' = [pc EXCEPT ![t] = "g_lock"]
    /\ op' = [op EXCEPT ![t] = "image"]
    /\ arg' = [arg EXCEPT ![t] = [NoArg EXCEPT !.id = id]]
    /\ creq' = [creq EXCEPT ![t] = [NoCreq EXCEPT !.path = path, !.remote = remote]]
    /\ stale' = [stale EXCEPT ![t] = id \in disconnected]
    /\ UNCHANGED <<regVars, cellVars, cacheVars, loc, res, held, sres, regHist>>
    /\ UNCHANGED fileVars

\* the cached entry is handed back: its content (thumbnail) or its path (image)
CacheHit(t) ==
    /\ Finish(t, Ok)
    /\ creq' = [creq EXCEPT ![t].hit = TRUE, ![t].fresh = TRUE]

\* if cache_file.exists(): without a remote_mtime the entry is trusted, and
\* cache_image returns its path at once
CacheExists(t) ==
    /\ pc[t] = "k_exists"
    /\ LET d == DirOf(op[t])
           n == creq[t].path IN
         IF n \notin DOMAIN files[d]
         THEN /\ pc' = [pc EXCEPT ![t] = "s_call"]
              /\ UNCHANGED <<res, creq>>
         ELSE IF creq[t].remote # None
         THEN /\ pc' = [pc EXCEPT ![t] = "k_meta"]
              /\ UNCHANGED <<res, creq>>
         ELSE IF op[t] = "thumb"
         THEN /\ pc' = [pc EXCEPT ![t] = "k_read"]
              /\ creq' = [creq EXCEPT ![t].fresh = TRUE]
              /\ UNCHANGED res
         ELSE CacheHit(t)
    /\ UNCHANGED <<regVars, cellVars, cacheVars, op, arg, loc, held, sres, stale,
                   regHist>>
    /\ UNCHANGED fileVars

\* a freshness test that wants the entry strictly newer than the remote file
IsFreshStrict(mtime, remote_mt) == mtime > remote_mt

\* d.as_secs() >= remote_mt
IsFresh(mtime, remote_mt) == mtime >= remote_mt

\* a cache check that trusts an existing entry whatever remote_mtime says
CacheMetaIgnoresMtime(t) ==
    /\ pc[t] = "k_meta"
    /\ IF creq[t].path \notin DOMAIN files[DirOf(op[t])]
       THEN /\ pc' = [pc EXCEPT ![t] = "s_call"]
            /\ UNCHANGED <<res, creq>>
       ELSE IF op[t] = "thumb"
       THEN /\ pc' = [pc EXCEPT ![t] = "k_read"]
            /\ creq' = [creq EXCEPT ![t].fresh = TRUE]
            /\ UNCHANGED res
       ELSE CacheHit(t)
    /\ UNCHANGED <<regVars, cellVars, cacheVars, op, arg, loc, held, sres, stale,
                   regHist>>
    /\ UNCHANGED fileVars

\* std::fs::metadata(&cache_file) and the comparison with remote_mtime; an entry
\* whose metadata cannot be read any more is not fresh
CacheMeta(t) ==
    /\ pc[t] = "k_meta"
    /\ LET d == DirOf(op[t])
           n == creq[t].path
           fresh == /\ n \in DOMAIN files[d]
                    /\ IsFresh(files[d][n].mtime, creq[t].remote) IN
         IF ~fresh
         THEN /\ pc' = [pc EXCEPT ![t] = "s_call"]
              /\ UNCHANGED <<res, creq>>
         ELSE IF op[t] = "thumb"
         THEN /\ pc' = [pc EXCEPT ![t] = "k_read"]
              /\ creq' = [creq EXCEPT ![t].fresh = TRUE]
              /\ UNCHANGED res
         ELSE CacheHit(t)
    /\ UNCHANGED <<regVars, cellVars, cacheVars, op, arg, loc, held, sres, stale,
                   regHist>>
    /\ UNCHANGED fileVars

\* get_thumbnail: if let Ok(data) = tokio::fs::read(&cache_file).await { return }
\* and the download follows when the file cannot be read any more
CacheRead(t) ==
    /\ pc[t] = "k_read"
    /\ IF creq[t].path \in DOMAIN files[DirOf(op[t])]
       THEN CacheHit(t)
       ELSE /\ pc' = [pc EXCEPT ![t] = "s_call"]
            /\ UNCHANGED <<res, creq>>
    /\ UNCHANGED <<regVars, cellVars, cacheVars, op, arg, loc, held, sres, stale,
                   regHist>>
    /\ UNCHANGED fileVars

\* the map_err messages of the image processing in get_thumbnail
ImageErrors == {"Image decode failed", "Image resize failed", "WebP encoding failed"}
\* the map_err messages between sftp() and the cache write
DownloadErrors(o) ==
    IF o = "thumb"
    THEN {"Failed to open image for thumbnail", "Failed to read thumbnail bytes"}
         \cup ImageErrors
    ELSE {"Failed to download image"}

\* with the channel from sftp(): get_thumbnail opens and reads the remote file and
\* builds the thumbnail, cache_image reads the remote file; either fails with an
\* Sftp error or yields the data to cache, of some length
Download(t) ==
    /\ pc[t] = "f_req"
    /\ op[t] \in CacheOps
    /\ \/ \E n \in DataSizes(DirOf(op[t])) :
            /\ creq' = [creq EXCEPT ![t].data = n]
            /\ pc' = [pc EXCEPT ![t] = "k_write"]
            /\ UNCHANGED res
       \/ /\ \E m \in DownloadErrors(op[t]) : Finish(t, Err("Sftp", m))
          /\ UNCHANGED creq
    /\ UNCHANGED <<regVars, cellVars, cacheVars, op, arg, loc, held, sres, stale,
                   regHist>>
    /\ UNCHANGED fileVars

\* a failed tokio::fs::write returned as an error by either command
WriteFailedFatal(t) ==
    Finish(t, Err("Sftp", IF op[t] = "thumb" THEN "Failed to save thumbnail to cache"
                          ELSE "Failed to write cached image"))

\* a failed tokio::fs::write: get_thumbnail logs it and goes on to the eviction
\* trigger, cache_image returns it as an Sftp error
WriteFailed(t) ==
    IF op[t] = "thumb"
    THEN pc' = [pc EXCEPT ![t] = "k_sched"] /\ UNCHANGED res
    ELSE Finish(t, Err("Sftp", "Failed to write cached image"))

\* tokio::fs::write, first half: the file is created, or truncated if it exists
WriteCreate(t) ==
    /\ pc[t] = "k_write"
    /\ LET d == DirOf(op[t])
           n == creq[t].path
           ws == IF n \in DOMAIN files[d] THEN files[d][n].writers ELSE {} IN
         \/ /\ files' = [files EXCEPT ![d] =
                           Put(@, n, [size |-> 0, mtime |-> now,
                                      writers |-> ws \cup {t}])]
            /\ pc' = [pc EXCEPT ![t] = "k_writing"]
            /\ UNCHANGED res
         \/ /\ WriteFailed(t)
            /\ UNCHANGED files
    /\ UNCHANGED <<evicting, sweeps, now, ioFails, creq>>
    /\ UNCHANGED <<regVars, cellVars, op, arg, loc, held, sres, stale, regHist>>
    /\ UNCHANGED fileVars

\* tokio::fs::write, second half: the data is written and the file closed; a
\* file unlinked or replaced meanwhile is no longer the directory's entry
WriteData(t) ==
    /\ pc[t] = "k_writing"
    /\ LET d == DirOf(op[t])
           n == creq[t].path
           linked == n \in DOMAIN files[d] /\ t \in files[d][n].writers IN
         \/ /\ files' = IF linked
                        THEN [files EXCEPT ![d][n] =
                                [size |-> creq[t].data, mtime |-> now,
                                 writers |-> @.writers \ {t}]]
                        ELSE files
            /\ creq' = [creq EXCEPT ![t].wrote = TRUE]
            /\ pc' = [pc EXCEPT ![t] = "k_sched"]
            /\ UNCHANGED res
         \/ /\ files' = IF linked
                        THEN [files EXCEPT ![d][n].writers = @ \ {t}]
                        ELSE files
            /\ WriteFailed(t)
            /\ UNCHANGED creq
    /\ UNCHANGED <<evicting, sweeps, now, ioFails>>
    /\ UNCHANGED <<regVars, cellVars, op, arg, loc, held, sres, stale, regHist>>
    /\ UNCHANGED fileVars

\* the blocking-pool slot a spawned closure gets
FreeSlot == CHOOSE w \in Slots :
                /\ sweeps[w].pc = "free"
                /\ \A v \in Slots : sweeps[v].pc = "free" => w <= v

\* a trigger that spawns an eviction closure whatever the flag says
TryScheduleUnguarded(t) ==
    /\ pc[t] = "k_sched"
    /\ LET d == DirOf(op[t]) IN
         /\ \E w \in Slots : sweeps[w].pc = "free"
         /\ sweeps' = [sweeps EXCEPT ![FreeSlot] =
                         [NoSweep EXCEPT !.pc = "spawned", !.dir = d]]
         /\ creq' = [creq EXCEPT ![t].sched = "started"]
         /\ evicting' = [evicting EXCEPT ![d] = TRUE]
    /\ Finish(t, Ok)
    /\ UNCHANGED <<files, now, ioFails>>
    /\ UNCHANGED <<regVars, cellVars, op, arg, loc, held, sres, stale, regHist>>
    /\ UNCHANGED fileVars

\* a trigger that sets the flag and spawns nothing
TryScheduleFlagOnly(t) ==
    /\ pc[t] = "k_sched"
    /\ LET d == DirOf(op[t]) IN
         /\ creq' = [creq EXCEPT ![t].sched =
                       IF evicting[d] THEN "running" ELSE "started"]
         /\ evicting' = [evicting EXCEPT ![d] = TRUE]
    /\ Finish(t, Ok)
    /\ UNCHANGED <<files, sweeps, now, ioFails>>
    /\ UNCHANGED <<regVars, cellVars, op, arg, loc, held, sres, stale, regHist>>
    /\ UNCHANGED fileVars

\* a trigger with one flag for both directories
TryScheduleSharedFlag(t) ==
    /\ pc[t] = "k_sched"
    /\ LET d == DirOf(op[t]) IN
         IF \E x \in Dirs : evicting[x]
         THEN /\ creq' = [creq EXCEPT ![t].sched = "running"]
              /\ UNCHANGED <<sweeps, evicting>>
         ELSE /\ \E w \in Slots : sweeps[w].pc = "free"
              /\ sweeps' = [sweeps EXCEPT ![FreeSlot] =
                              [NoSweep EXCEPT !.pc = "spawned", !.dir = d]]
              /\ creq' = [creq EXCEPT ![t].sched = "started"]
              /\ evicting' = [evicting EXCEPT ![d] = TRUE]
    /\ Finish(t, Ok)
    /\ UNCHANGED <<files, now, ioFails>>
    /\ UNCHANGED <<regVars, cellVars, op, arg, loc, held, sres, stale, regHist>>
    /\ UNCHANGED fileVars

\* if !*_EVICTION_RUNNING.swap(true) { spawn_blocking(evict; store(false)) },
\* then Ok(..): the closure is not awaited
TrySchedule(t) ==
    /\ pc[t] = "k_sched"
    /\ LET d == DirOf(op[t]) IN
         IF evicting[d]
         THEN /\ creq' = [creq EXCEPT ![t].sched = "running"]
              /\ UNCHANGED <<sweeps, evicting>>
         ELSE /\ \E w \in Slots : sweeps[w].pc = "free"
              /\ sweeps' = [sweeps EXCEPT ![FreeSlot] =
                              [NoSweep EXCEPT !.pc = "spawned", !.dir = d]]
              /\ creq' = [creq EXCEPT ![t].sched = "started"]
              /\ evicting' = [evicting EXCEPT ![d] = TRUE]
    /\ Finish(t, Ok)
    /\ UNCHANGED <<files, now, ioFails>>
    /\ UNCHANGED <<regVars, cellVars, op, arg, loc, held, sres, stale, regHist>>
    /\ UNCHANGED fileVars

\* ------------------------------------------------------------- sftp_save_file
\* the command picks the save directory and a free local name, looks the session
\* up and calls save_file(session, remote_path, local_path)
SaveCall(t, id, path) ==
    /\ pc[t] = "idle"
    /\ pc' = [pc EXCEPT ![t] = "g_lock"]
    /\ op' = [op EXCEPT ![t] = "save"]
    /\ arg' = [arg EXCEPT ![t] = [NoArg EXCEPT !.id = id]]
    /\ farg' = [farg EXCEPT ![t] = [NoFarg EXCEPT !.path = path]]
    /\ stale' = [stale EXCEPT ![t] = id \in disconnected]
    /\ UNCHANGED <<regVars, cellVars, cacheVars, creq, loc, res, held, sres, regHist>>
    /\ UNCHANGED <<server, uploaded, fout, calls>>

\* the message of a command whose std::fs::create_dir_all fails
DirErrors(o) ==
    CASE o = "thumb" -> "Cannot create thumbnail cache dir"
      [] o = "image" -> "Cannot create image cache dir"
      [] o = "save" -> "Cannot create save directory"

\* sftp_get_thumbnail, sftp_cache_image and sftp_save_file return before
\* get_session when their local directory cannot be created
DirFailed(t, o) ==
    /\ pc[t] = "idle"
    /\ op' = [op EXCEPT ![t] = o]
    /\ Finish(t, Err("Sftp", DirErrors(o)))
    /\ UNCHANGED <<regVars, cellVars, cacheVars, creq, fileVars, arg, loc, held, sres,
                   stale, regHist>>

\* save_file: sftp.read(remote_path), the whole file or an Sftp error
SaveRead(t) ==
    /\ pc[t] = "f_req"
    /\ op[t] = "save"
    /\ \/ pc' = [pc EXCEPT ![t] = "v_write"] /\ UNCHANGED res
       \/ Finish(t, Err("Sftp", "Failed to download file"))
    /\ UNCHANGED <<regVars, cellVars, cacheVars, creq, fileVars, op, arg, loc, held,
                   sres, stale, regHist>>

\* a local write whose failure goes through From<std::io::Error>
SaveWriteIo(t) ==
    /\ pc[t] = "v_write"
    /\ \/ Finish(t, Ok)
       \/ Finish(t, Err("Io", "Failed to write local file"))
    /\ UNCHANGED <<regVars, cellVars, cacheVars, creq, fileVars, op, arg, loc, held,
                   sres, stale, regHist>>

\* save_file: tokio::fs::write(local_path, &data), its failure mapped to Sftp
SaveWrite(t) ==
    /\ pc[t] = "v_write"
    /\ \/ Finish(t, Ok)
       \/ Finish(t, Err("Sftp", "Failed to write local file"))
    /\ UNCHANGED <<regVars, cellVars, cacheVars, creq, fileVars, op, arg, loc, held,
                   sres, stale, regHist>>

\* the sequences of at most n elements of S
RECURSIVE SeqsUpTo(_, _)
SeqsUpTo(S, n) ==
    IF n = 0 THEN {<<>>}
    ELSE LET R == SeqsUpTo(S, n - 1) IN
         R \cup {Append(q, x) : q \in {r \in R : Len(r) = n - 1}, x \in S}

\* --------------------------------------------------------------------- list_dir
\* a name is a sequence of characters; the characters used, in code point order
Chars == <<".",
           "A", "B", "C", "D", "E", "F", "G", "H", "I", "J", "K", "L", "M",
           "N", "O", "P", "Q", "R", "S", "T", "U", "V", "W", "X", "Y", "Z",
           "a", "b", "c", "d", "e", "f", "g", "h", "i", "j", "k", "l", "m",
           "n", "o", "p", "q", "r", "s", "t", "u", "v", "w", "x", "y", "z">>
CharSet == {Chars[i] : i \in 1..Len(Chars)}
CodeOf == [c \in CharSet |-> CHOOSE i \in 1..Len(Chars) : Chars[i] = c]
Code(c) == CodeOf[c]
IsUpper(c) == Code(c) >= Code("A") /\ Code(c) <= Code("Z")
\* str::to_lowercase on these characters
LowerOf == [c \in CharSet |->
              IF IsUpper(c) THEN Chars[Code(c) - Code("A") + Code("a")] ELSE c]
ToLowerChar(c) == LowerOf[c]
ToLower(n) == [i \in 1..Len(n) |-> ToLowerChar(n[i])]

\* Ord for String: lexicographic by code point, a proper prefix first
RECURSIVE StrLess(_, _)
StrLess(a, b) ==
    IF b = <<>> THEN FALSE
    ELSE IF a = <<>> THEN TRUE
    ELSE IF Head(a) # Head(b) THEN Code(Head(a)) < Code(Head(b))
    ELSE StrLess(Tail(a), Tail(b))

\* name.rsplit('.').next(): what follows the last '.', the whole name if there
\* is none
LastDot(n) == IF \E i \in 1..Len(n) : n[i] = "."
              THEN CHOOSE i \in 1..Len(n) :
                       n[i] = "." /\ \A j \in (i + 1)..Len(n) : n[j] # "."
              ELSE 0
RSplitDot(n) == SubSeq(n, LastDot(n) + 1, Len(n))

ImageExts == {<<"p", "n", "g">>, <<"j", "p", "g">>, <<"j", "p", "e", "g">>,
              <<"g", "i", "f">>, <<"b", "m", "p">>, <<"w", "e", "b", "p">>,
              <<"a", "v", "i", "f">>, <<"h", "e", "i", "c">>, <<"s", "v", "g">>}

is_image_ext(name) == ToLower(RSplitDot(name)) \in ImageExts

\* the FileEntry list_dir builds from a read_dir entry (its path, size and
\* modified fields are copied from the entry's attributes and left out)
FileEntry(e) ==
    [name |-> e.name, is_dir |-> e.is_dir,
     is_image |-> IF e.is_dir THEN FALSE ELSE is_image_ext(e.name)]

\* a comparator that leaves the case of the names alone
EntryLessCased(a, b) ==
    \/ a.is_dir /\ ~b.is_dir
    \/ a.is_dir = b.is_dir /\ StrLess(a.name, b.name)

\* the comparator of files.sort_by: b.is_dir.cmp(&a.is_dir), then the lowercased
\* names
EntryLess(a, b) ==
    \/ a.is_dir /\ ~b.is_dir
    \/ a.is_dir = b.is_dir /\ StrLess(ToLower(a.name), ToLower(b.name))

\* sort_by is stable: an element goes behind every element that is not greater
RECURSIVE InsertSorted(_, _)
InsertSorted(s, e) ==
    IF s = <<>> THEN <<e>>
    ELSE IF EntryLess(e, Head(s)) THEN <<e>> \o s
    ELSE <<Head(s)>> \o InsertSorted(Tail(s), e)

RECURSIVE SortEntries(_)
SortEntries(s) ==
    IF s = <<>> THEN <<>>
    ELSE InsertSorted(SortEntries(SubSeq(s, 1, Len(s) - 1)), s[Len(s)])

IsDotName(n) == n = <<".">> \/ n = <<".", ".">>

\* the loop over the reply: "." and ".." are skipped, the rest pushed in order
RECURSIVE Collect(_)
Collect(es) ==
    IF es = <<>> THEN <<>>
    ELSE IF IsDotName(Head(es).name) THEN Collect(Tail(es))
    ELSE <<FileEntry(Head(es))>> \o Collect(Tail(es))

\* the names and the entries a read_dir reply is made of
Names == {<<".">>, <<".", ".">>, <<"A">>, <<"a">>, <<"b", ".", "t", "x", "t">>,
          <<"B", ".", "P", "N", "G">>, <<"p", "n", "g">>}
DirEntries ==
    {[name |-> n, is_dir |-> TRUE] : n \in Names}
    \cup {[name |-> n, is_dir |-> FALSE] : n \in {m \in Names : ~IsDotName(m)}}
\* the replies of at most MaxEntries entries
Replies == SeqsUpTo(DirEntries, MaxEntries)

\* sftp_list_dir: get_session, then list_dir(session, path)
ListDirCall(t, id) ==
    /\ pc[t] = "idle"
    /\ pc' = [pc EXCEPT ![t] = "g_lock"]
    /\ op' = [op EXCEPT ![t] = "listdir"]
    /\ arg' = [arg EXCEPT ![t] = [NoArg EXCEPT !.id = id]]
    /\ stale' = [stale EXCEPT ![t] = id \in disconnected]
    /\ UNCHANGED <<regVars, cellVars, cacheVars, creq, fileVars, loc, res, held, sres,
                   regHist>>

\* list_dir with the channel: sftp.read_dir(path) fails, or replies with some
\* entries es, from which the sorted listing is built
ListDir(t) ==
    /\ pc[t] = "f_req"
    /\ op[t] = "listdir"
    /\ \/ \E es \in Replies :
            /\ farg' = [farg EXCEPT ![t].entries = es]
            /\ fout' = [fout EXCEPT ![t] = SortEntries(Collect(es))]
            /\ Finish(t, Ok)
       \/ /\ Finish(t, Err("Sftp", "Failed to read directory"))
          /\ UNCHANGED <<farg, fout>>
    /\ UNCHANGED <<regVars, cellVars, cacheVars, creq, op, arg, loc, held, sres,
                   stale, regHist>>
    /\ UNCHANGED <<server, uploaded, calls>>

\* ------------------------------------------------------------ read_file_preview
\* a Vec<u8> is a sequence of bytes; the bytes a remote file is made of here:
\* NUL, '\n', 'A', the two bytes of U+00E9, and a byte no UTF-8 text contains
Bytes == {0, 10, 65, 195, 169, 255}

\* b == b'\n' || b == b'\r' || b == b'\t' || (b >= 0x20 && b <= 0x7E) || b >= 0x80
IsTextByte(b) == b = 10 \/ b = 13 \/ b = 9 \/ (b >= 32 /\ b <= 126) \/ b >= 128
IsText(d) == \A i \in 1..Len(d) : IsTextByte(d[i])

\* data.len() > max_bytes
Truncated(len, max) == len > max

\* if truncated { &data[..max_bytes] } else { &data }
PreviewData(d, max) == IF Truncated(Len(d), max) THEN SubSeq(d, 1, max) ELSE d

\* UTF-8 as far as these bytes go: a byte below 0x80 is a character, a byte in
\* 0xC2..0xDF followed by one in 0x80..0xBF is a character, nothing else is
IsLead2(b) == b >= 194 /\ b <= 223
IsCont(b) == b >= 128 /\ b <= 191
\* U+FFFD REPLACEMENT CHARACTER, encoded
Replacement == <<239, 191, 189>>

\* String::from_utf8_lossy, as the bytes of the String it yields: every maximal
\* invalid sequence becomes U+FFFD
RECURSIVE FromUtf8Lossy(_)
FromUtf8Lossy(d) ==
    IF d = <<>> THEN <<>>
    ELSE IF Head(d) < 128 THEN <<Head(d)>> \o FromUtf8Lossy(Tail(d))
    ELSE IF IsLead2(Head(d)) /\ Len(d) >= 2 /\ IsCont(d[2])
         THEN <<d[1], d[2]>> \o FromUtf8Lossy(SubSeq(d, 3, Len(d)))
    ELSE Replacement \o FromUtf8Lossy(Tail(d))

\* base64 STANDARD with padding, as the alphabet positions 0..63 of its
\* characters and Pad for '='
Pad == 64
RECURSIVE Base64(_)
Base64(d) ==
    IF d = <<>> THEN <<>>
    ELSE IF Len(d) = 1
         THEN <<d[1] \div 4, (d[1] % 4) * 16, Pad, Pad>>
    ELSE IF Len(d) = 2
         THEN <<d[1] \div 4, (d[1] % 4) * 16 + d[2] \div 16, (d[2] % 16) * 4, Pad>>
    ELSE <<d[1] \div 4, (d[1] % 4) * 16 + d[2] \div 16,
           (d[2] % 16) * 4 + d[3] \div 64, d[3] % 64>>
         \o Base64(SubSeq(d, 4, Len(d)))

\* the FilePreview read_file_preview builds from the file's bytes
FilePreview(d, max) ==
    LET p == PreviewData(d, max) IN
    [content |-> IF IsText(p) THEN FromUtf8Lossy(p) ELSE Base64(p),
     is_text |-> IsText(p),
     truncated |-> Truncated(Len(d), max),
     total_size |-> Len(d)]

\* the contents a remote file may have
Contents == SeqsUpTo(Bytes, MaxLen)

\* sftp_read_file_preview: get_session, then read_file_preview(session, path,
\* max_bytes.unwrap_or(64 * 1024))
PreviewCall(t, id, max) ==
    /\ pc[t] = "idle"
    /\ pc' = [pc EXCEPT ![t] = "g_lock"]
    /\ op' = [op EXCEPT ![t] = "preview"]
    /\ arg' = [arg EXCEPT ![t] = [NoArg EXCEPT !.id = id]]
    /\ farg' = [farg EXCEPT ![t] = [NoFarg EXCEPT !.max = max]]
    /\ stale' = [stale EXCEPT ![t] = id \in disconnected]
    /\ UNCHANGED <<regVars, cellVars, cacheVars, creq, loc, res, held, sres, regHist>>
    /\ UNCHANGED <<server, uploaded, fout, calls>>

\* read_file_preview with the channel: sftp.read(path) fails, or yields the
\* file's bytes d, from which the preview is built
Preview(t) ==
    /\ pc[t] = "f_req"
    /\ op[t] = "preview"
    /\ \/ \E d \in Contents :
            /\ farg' = [farg EXCEPT ![t].data = d]
            /\ fout' = [fout EXCEPT ![t] = FilePreview(d, farg[t].max)]
            /\ Finish(t, Ok)
       \/ /\ Finish(t, Err("Sftp", "Failed to read file"))
          /\ UNCHANGED <<farg, fout>>
    /\ UNCHANGED <<regVars, cellVars, cacheVars, creq, op, arg, loc, held, sres,
                   stale, regHist>>
    /\ UNCHANGED <<server, uploaded, calls>>

\* ------------------------------------------- upload_file, download_file, delete_file
\* the data a caller uploads
Payloads == {<<65>>, <<65, 255, 0>>}

\* the server's files with the file at path p holding the bytes d
WithFile(f, p, d) == [q \in DOMAIN f \cup {p} |-> IF q = p THEN d ELSE f[q]]
\* the server's files without the file at path p
WithoutFile(f, p) == [q \in DOMAIN f \ {p} |-> f[q]]
\* a file holding old after d was written at offset 0
WriteAt(old, d) == d \o SubSeq(old, Len(d) + 1, Len(old))

\* sftp_upload_file, sftp_download_file, sftp_delete_file: get_session, then the
\* sftp_ops function on (session, path[, data])
TransferCall(t, o, id, path, d) ==
    /\ pc[t] = "idle"
    /\ pc' = [pc EXCEPT ![t] = "g_lock"]
    /\ op' = [op EXCEPT ![t] = o]
    /\ arg' = [arg EXCEPT ![t] = [NoArg EXCEPT !.id = id]]
    /\ farg' = [farg EXCEPT ![t] = [NoFarg EXCEPT !.path = path, !.data = d]]
    /\ stale' = [stale EXCEPT ![t] = id \in disconnected]
    /\ UNCHANGED <<regVars, cellVars, cacheVars, creq, loc, res, held, sres, regHist>>
    /\ UNCHANGED <<server, uploaded, fout, calls>>

UploadCall(t, id, path, d) == TransferCall(t, "upload", id, path, d)
DownloadCall(t, id, path) == TransferCall(t, "download", id, path, <<>>)
DeleteCall(t, id, path) == TransferCall(t, "delete", id, path, <<>>)

\* what every step of the three functions leaves alone
TransferFrame ==
    UNCHANGED <<regVars, cellVars, cacheVars, creq, op, arg, farg, loc, held, sres,
                stale, regHist, calls>>

\* sftp.create(remote_path) opening the file without emptying it
UploadCreateKeeps(t) ==
    /\ pc[t] = "f_req"
    /\ op[t] = "upload"
    /\ LET p == farg[t].path IN
       \/ /\ server' = WithFile(server, p, IF p \in DOMAIN server THEN server[p] ELSE <<>>)
          /\ uploaded' = WithFile(uploaded, p, [by |-> t, data |-> farg[t].data, done |-> FALSE])
          /\ pc' = [pc EXCEPT ![t] = "u_write"]
          /\ UNCHANGED res
       \/ /\ Finish(t, Err("Sftp", "Failed to create file for upload"))
          /\ UNCHANGED <<server, uploaded>>
    /\ UNCHANGED fout
    /\ TransferFrame

\* upload_file with the channel: sftp.create(remote_path) fails, or creates the
\* file or empties the one there (CREATE | TRUNCATE | WRITE). uploaded notes that
\* this upload is now the only one that wrote the path
UploadCreate(t) ==
    /\ pc[t] = "f_req"
    /\ op[t] = "upload"
    /\ LET p == farg[t].path IN
       \/ /\ server' = WithFile(server, p, <<>>)
          /\ uploaded' = WithFile(uploaded, p, [by |-> t, data |-> farg[t].data, done |-> FALSE])
          /\ pc' = [pc EXCEPT ![t] = "u_write"]
          /\ UNCHANGED res
       \/ /\ Finish(t, Err("Sftp", "Failed to create file for upload"))
          /\ UNCHANGED <<server, uploaded>>
    /\ UNCHANGED fout
    /\ TransferFrame

\* file.write_all(data): the data goes to the open file from offset 0, or the
\* write fails after k of its bytes. A file deleted since the create is no
\* longer at the path, and the bytes do not show there. uploaded keeps this
\* upload if nothing else wrote the path since its create and the write is whole
UploadWrite(t) ==
    /\ pc[t] = "u_write"
    /\ LET p == farg[t].path
           d == farg[t].data
           alone == p \in DOMAIN uploaded /\ uploaded[p].by = t /\ ~uploaded[p].done
           put(w) == IF p \in DOMAIN server
                     THEN WithFile(server, p, WriteAt(server[p], w))
                     ELSE server
       IN \/ /\ server' = put(d)
             /\ uploaded' = IF alone THEN [uploaded EXCEPT ![p].done = TRUE]
                                     ELSE WithoutFile(uploaded, p)
             /\ Finish(t, Ok)
          \/ \E k \in 0..(Len(d) - 1) :
                /\ server' = put(SubSeq(d, 1, k))
                /\ uploaded' = WithoutFile(uploaded, p)
                /\ Finish(t, Err("Sftp", "Failed to write file data"))
    /\ UNCHANGED fout
    /\ TransferFrame

\* download_file with the channel: sftp.read(path) yields the bytes at the path,
\* or fails (as it must when no file is there)
DownloadFile(t) ==
    /\ pc[t] = "f_req"
    /\ op[t] = "download"
    /\ \/ /\ farg[t].path \in DOMAIN server
          /\ fout' = [fout EXCEPT ![t] = server[farg[t].path]]
          /\ Finish(t, Ok)
       \/ /\ Finish(t, Err("Sftp", "Failed to download file"))
          /\ UNCHANGED fout
    /\ UNCHANGED <<server, uploaded>>
    /\ TransferFrame

\* delete_file with the channel: sftp.remove_file(path) removes the file at the
\* path, or fails (as it must when no file is there)
DeleteFile(t) ==
    /\ pc[t] = "f_req"
    /\ op[t] = "delete"
    /\ \/ /\ farg[t].path \in DOMAIN server
          /\ server' = WithoutFile(server, farg[t].path)
          /\ uploaded' = WithoutFile(uploaded, farg[t].path)
          /\ Finish(t, Ok)
       \/ /\ Finish(t, Err("Sftp", "Failed to delete file"))
          /\ UNCHANGED <<server, uploaded>>
    /\ UNCHANGED fout
    /\ TransferFrame

\* a second passes on the local clock
Tick ==
    /\ now < MaxTime
    /\ now' = now + 1
    /\ UNCHANGED <<files, evicting, sweeps, ioFails>>
    /\ UNCHANGED <<regVars, cellVars, pc, op, arg, loc, res, held, sres, stale,
                   regHist, creq>>
    /\ UNCHANGED fileVars

\* ---------------------------------------------------------- specifications
\* empty cache directories, both flags false, no eviction closure spawned
InitCache ==
    /\ files = [d \in Dirs |-> NoFiles]
    /\ evicting = [d \in Dirs |-> FALSE]
    /\ sweeps = [w \in Slots |-> NoSweep]
    /\ now = 0
    /\ ioFails = [d \in Dirs |-> 0]
    /\ server = NoServer
    /\ uploaded = NoServer

InitTasks(n) ==
    /\ pc = [t \in 1..n |-> "idle"]
    /\ op = [t \in 1..n |-> "none"]
    /\ arg = [t \in 1..n |-> NoArg]
    /\ loc = [t \in 1..n |-> NoLoc]
    /\ res = [t \in 1..n |-> NoRes]
    /\ held = [t \in 1..n |-> 0]
    /\ sres = [t \in 1..n |-> NoSres]
    /\ stale = [t \in 1..n |-> FALSE]
    /\ regHist = [t \in 1..n |-> {}]
    /\ creq = [t \in 1..n |-> NoCreq]
    /\ farg = [t \in 1..n |-> NoFarg]
    /\ fout = [t \in 1..n |-> None]
    /\ calls = <<>>
    /\ lock = 0
    /\ disconnected = {}
    /\ cell = [i \in Ids |-> EmptyCell]
    /\ opened = [i \in Ids |-> 0]
    /\ runs = [i \in Ids |-> 0]
    /\ fails = [i \in Ids |-> 0]

\* SshSessionManager::new: an empty registry
Init ==
    /\ InitTasks(NumTasks)
    /\ InitCache
    /\ sessions = [i \in {} |-> 0]
    /\ nextId = 0
    /\ returned = <<>>

SftpStep(t) ==
    \/ SftpCall(t)
    \/ SemAcquire(t)
    \/ SemWake(t)
    \/ ChannelOpen(t)
    \/ RequestSubsystem(t)
    \/ Handshake(t)
    \/ FileRequest(t)

Next ==
    \E t \in 1..NumTasks :
        \/ \E l \in Logins, c \in Credentials :
              ConnectCall(t, l[1], l[2], c[1], c[2])
        \/ VaultRetrieve(t)
        \/ ParseKey(t)
        \/ ResolveAddr(t)
        \/ TransportConnect(t)
        \/ BestRsaHash(t)
        \/ Authenticate(t)
        \/ BuildSession(t)
        \/ ConnectLock(t)
        \/ ConnectInsert(t)
        \/ \E i \in Ids : DisconnectCall(t, i)
        \/ DisconnectLock(t)
        \/ DisconnectRemove(t)
        \/ ListCall(t)
        \/ ListLock(t)
        \/ ListStep(t)
        \/ ListCollect(t)
        \/ \E i \in Ids : FileCall(t, i)
        \/ GetLock(t)
        \/ GetLookup(t)
        \/ SftpStep(t)
        \/ Return(t)

Spec == Init /\ [][Next]_vars

\* one freshly connected session and NumCallers file commands racing on it
SftpInit ==
    /\ InitTasks(NumCallers)
    /\ InitCache
    /\ sessions = [i \in {1} |-> [host |-> "h1", user |-> "u1", handle |-> "authed"]]
    /\ nextId = 1
    /\ returned = <<1>>

SftpNext ==
    \E t \in 1..NumCallers :
        \/ \E i \in Ids : FileCall(t, i)
        \/ GetLock(t)
        \/ GetLookup(t)
        \/ SftpStep(t)
        \/ Return(t)

SftpSpec == SftpInit /\ [][SftpNext]_vars

\* connects, connection tests and disconnects racing on the registry
ConnNext ==
    \E t \in 1..NumTasks :
        \/ \E l \in Logins, c \in Credentials :
              ConnectCall(t, l[1], l[2], c[1], c[2])
        \/ \E l \in Logins, c \in Credentials :
              TestCall(t, l[1], l[2], c[1], c[2])
        \/ VaultRetrieve(t)
        \/ ParseKey(t)
        \/ ResolveAddr(t)
        \/ TransportConnect(t)
        \/ BestRsaHash(t)
        \/ Authenticate(t)
        \/ BuildSession(t)
        \/ TestDiscard(t)
        \/ ConnectLock(t)
        \/ ConnectInsert(t)
        \/ \E i \in Ids : DisconnectCall(t, i)
        \/ DisconnectLock(t)
        \/ DisconnectRemove(t)
        \/ Return(t)

ConnSpec == Init /\ [][ConnNext]_vars

\* the contents a cache directory can have: any files of the names in N
Directories(d, N) ==
    UNION {[S -> [size : Sizes(d), mtime : Times, writers : {{}}]] : S \in SUBSET N}

\* a population has just scheduled a sweep of a directory holding any files
EvictInit ==
    /\ InitTasks(NumReqs)
    /\ sessions = [i \in {1} |-> [host |-> "h1", user |-> "u1", handle |-> "authed"]]
    /\ nextId = 1
    /\ returned = <<1>>
    /\ now = MaxTime
    /\ ioFails = [x \in Dirs |-> 0]
    /\ server = NoServer
    /\ uploaded = NoServer
    /\ \E d \in Dirs : \E F \in Directories(d, FileNames) :
          /\ files = [x \in Dirs |-> IF x = d THEN F ELSE NoFiles]
          /\ evicting = [x \in Dirs |-> x = d]
          /\ sweeps = [w \in Slots |->
                         IF w = 1 THEN [NoSweep EXCEPT !.pc = "spawned", !.dir = d]
                         ELSE NoSweep]

EvictNext == \E w \in 1..NumSlots : SweepStep(w)

EvictSpec == EvictInit /\ [][EvictNext]_vars

\* the remote_mtime values a cache command is called with
RemoteTimes == {None} \cup Times

\* the handler that runs file commands next to the cache commands 1..NumReqs
FileTask == NumReqs + 1

\* one connected session on which MaxFailures channel setups have failed at the
\* first step, NumReqs cache commands and one file command, and cache directories
\* that are empty or hold one file of an earlier run
CacheInit ==
    /\ pc = [t \in 1..FileTask |-> "idle"]
    /\ op = [t \in 1..FileTask |-> "none"]
    /\ arg = [t \in 1..FileTask |-> NoArg]
    /\ loc = [t \in 1..FileTask |-> NoLoc]
    /\ res = [t \in 1..FileTask |-> NoRes]
    /\ held = [t \in 1..FileTask |-> 0]
    /\ sres = [t \in 1..FileTask |-> NoSres]
    /\ stale = [t \in 1..FileTask |-> FALSE]
    /\ regHist = [t \in 1..FileTask |-> {}]
    /\ creq = [t \in 1..FileTask |-> NoCreq]
    /\ farg = [t \in 1..FileTask |-> NoFarg]
    /\ fout = [t \in 1..FileTask |-> None]
    /\ calls = <<>>
    /\ server = NoServer
    /\ uploaded = NoServer
    /\ lock = 0
    /\ disconnected = {}
    /\ cell = [i \in Ids |-> EmptyCell]
    /\ opened = [i \in Ids |-> 0]
    /\ runs = [i \in Ids |-> IF i = 1 THEN MaxFailures ELSE 0]
    /\ fails = [i \in Ids |-> IF i = 1 THEN MaxFailures ELSE 0]
    /\ evicting = [d \in Dirs |-> FALSE]
    /\ sweeps = [w \in Slots |-> NoSweep]
    /\ now = 0
    /\ ioFails = [d \in Dirs |-> 0]
    /\ \E d \in Dirs : \E F \in Directories(d, {1}) :
          /\ F # NoFiles => F[1].size \in DataSizes(d) /\ F[1].mtime = 0
          /\ files = [x \in Dirs |-> IF x = d THEN F ELSE NoFiles]
    /\ sessions = [i \in {1} |-> [host |-> "h1", user |-> "u1", handle |-> "authed"]]
    /\ nextId = 1
    /\ returned = <<1>>

\* the other cache directory has not been used: a run of CacheSpec populates
\* one of the two directories
OnlyDir(d) ==
    /\ \A x \in Dirs \ {d} : files[x] = NoFiles /\ ~evicting[x]
    /\ \A u \in Tasks : op[u] \in CacheOps => DirOf(op[u]) = d

ThumbRequest(t, id, path, remote) ==
    OnlyDir("thumbnails") /\ ThumbCall(t, id, path, remote)

ImageRequest(t, id, path, remote) ==
    OnlyDir("image_cache") /\ ImageCall(t, id, path, remote)

CacheStep(t) ==
    \/ CacheExists(t)
    \/ CacheMeta(t)
    \/ CacheRead(t)
    \/ Download(t)
    \/ WriteCreate(t)
    \/ WriteData(t)
    \/ TrySchedule(t)

CacheNext ==
    \/ \E t \in 1..NumReqs :
          \/ \E i \in Ids, p \in Paths, r \in RemoteTimes : ThumbRequest(t, i, p, r)
          \/ \E i \in Ids, p \in Paths, r \in RemoteTimes : ImageRequest(t, i, p, r)
          \/ CacheStep(t)
    \/ \E t \in FileTask..FileTask :
          \/ FileCall(t, 1)
          \/ FileRequest(t)
    \/ \E t \in 1..FileTask :
          \/ GetLock(t)
          \/ GetLookup(t)
          \/ SftpCall(t)
          \/ SemAcquire(t)
          \/ SemWake(t)
          \/ ChannelOpen(t)
          \/ RequestSubsystem(t)
          \/ Handshake(t)
          \/ Return(t)
    \/ \E w \in 1..NumSlots : SweepStep(w)
    \/ Tick

CacheSpec == CacheInit /\ [][CacheNext]_vars

\* what a returning get_thumbnail call did: its path and remote_mtime, whether
\* it returned Ok, whether it downloaded, whether its cache write completed, and
\* the modification time of its cache entry as it returns (None: no entry)
CallRecord(t) ==
    LET d == DirOf(op[t])
        n == creq[t].path IN
    [path |-> n, remote |-> creq[t].remote, ok |-> res[t].kind = "Ok",
     dl |-> creq[t].data # 0, wrote |-> creq[t].wrote,
     mt |-> IF n \in DOMAIN files[d] THEN files[d][n].mtime ELSE None]

\* one handler calls get_thumbnail for the same path again and again, on a
\* thumbnails directory that holds at most that path's entry
ThumbInit == CacheInit /\ OnlyDir("thumbnails")

NextThumbCall(t, r) ==
    /\ Len(calls) < MaxCalls
    /\ ThumbCall(t, 1, 1, r)

ThumbReturn(t) ==
    /\ op[t] = "thumb"
    /\ ReturnWith(t, Append(calls, CallRecord(t)))

\* the one thumbnail of the one path never exceeds the budget, so a sweep of the
\* directory enumerates it and ends without a file to delete
ThumbNext ==
    \/ \E t \in 1..1 :
          \/ \E r \in RemoteTimes : NextThumbCall(t, r)
          \/ GetLock(t)
          \/ GetLookup(t)
          \/ CacheStep(t)
          \/ SftpCall(t)
          \/ SemAcquire(t)
          \/ ChannelOpen(t)
          \/ RequestSubsystem(t)
          \/ Handshake(t)
          \/ ThumbReturn(t)
    \/ \E w \in 1..NumSlots :
          \/ SweepEnumerate(w)
          \/ SweepClear(w)
    \/ Tick

ThumbSpec == ThumbInit /\ [][ThumbNext]_vars

\* one connected session with a fresh channel cell and empty cache directories;
\* NumReqs handlers run the commands that cache or save files
FileInit ==
    /\ InitTasks(NumReqs)
    /\ InitCache
    /\ sessions = [i \in {1} |-> [host |-> "h1", user |-> "u1", handle |-> "authed"]]
    /\ nextId = 1
    /\ returned = <<1>>

LocalOps == {"thumb", "image", "save"}

FileNext ==
    \/ \E t \in 1..NumReqs :
          \/ \E i \in Ids, p \in Paths, r \in RemoteTimes : ThumbRequest(t, i, p, r)
          \/ \E i \in Ids, p \in Paths, r \in RemoteTimes : ImageRequest(t, i, p, r)
          \/ \E i \in Ids, p \in Paths : SaveCall(t, i, p)
          \/ \E o \in LocalOps : DirFailed(t, o)
          \/ GetLock(t)
          \/ GetLookup(t)
          \/ CacheStep(t)
          \/ SftpCall(t)
          \/ SemAcquire(t)
          \/ ChannelOpen(t)
          \/ RequestSubsystem(t)
          \/ Handshake(t)
          \/ SaveRead(t)
          \/ SaveWrite(t)
          \/ Return(t)
    \/ \E w \in 1..NumSlots : SweepStep(w)

FileSpec == FileInit /\ [][FileNext]_vars

\* both cache directories start empty
DirsInit == CacheInit /\ \A d \in Dirs : files[d] = NoFiles

\* NumReqs handlers populate both cache directories of the connected session in
\* one run
DirsNext ==
    \/ \E t \in 1..NumReqs :
          \/ \E p \in Paths, r \in RemoteTimes : ThumbCall(t, 1, p, r)
          \/ \E r \in RemoteTimes : ImageCall(t, 1, 1, r)
          \/ GetLock(t)
          \/ GetLookup(t)
          \/ CacheStep(t)
          \/ SftpCall(t)
          \/ SemAcquire(t)
          \/ ChannelOpen(t)
          \/ RequestSubsystem(t)
          \/ Handshake(t)
          \/ Return(t)
    \/ \E w \in 1..NumSlots : SweepStep(w)

DirsSpec == DirsInit /\ [][DirsNext]_vars

\* sftp_list_dir on the connected session, the server replying with at most
\* MaxEntries entries
ListNext ==
    \E t \in 1..NumReqs :
        \/ \E i \in Ids : ListDirCall(t, i)
        \/ GetLock(t)
        \/ GetLookup(t)
        \/ SftpCall(t)
        \/ SemAcquire(t)
        \/ ChannelOpen(t)
        \/ RequestSubsystem(t)
        \/ Handshake(t)
        \/ ListDir(t)
        \/ Return(t)

ListSpec == FileInit /\ [][ListNext]_vars

\* handlers uploading to, downloading from and deleting at the paths of one
\* server over the connected session
TransferInit ==
    /\ InitTasks(NumTasks)
    /\ InitCache
    /\ sessions = [i \in {1} |-> [host |-> "h1", user |-> "u1", handle |-> "authed"]]
    /\ nextId = 1
    /\ returned = <<1>>

TransferNext ==
    \E t \in 1..NumTasks :
        \/ \E p \in Paths, d \in Payloads : UploadCall(t, 1, p, d)
        \/ \E p \in Paths : DownloadCall(t, 1, p)
        \/ \E p \in Paths : DeleteCall(t, 1, p)
        \/ GetLock(t)
        \/ GetLookup(t)
        \/ SftpCall(t)
        \/ SemAcquire(t)
        \/ SemWake(t)
        \/ ChannelOpen(t)
        \/ RequestSubsystem(t)
        \/ Handshake(t)
        \/ UploadCreate(t)
        \/ UploadWrite(t)
        \/ DownloadFile(t)
        \/ DeleteFile(t)
        \/ Return(t)

TransferSpec == TransferInit /\ [][TransferNext]_vars

\* ssh_disconnect called by NumCallers handlers at once, both ids registered
DisconnectInit ==
    /\ InitTasks(NumCallers)
    /\ InitCache
    /\ sessions = [i \in Ids |-> [host |-> "h1", user |-> "u1", handle |-> "authed"]]
    /\ nextId = MaxIds
    /\ returned = [i \in Ids |-> i]

\* at most MaxCalls calls are made once the first has returned
NextDisconnectCall(t, i) == Len(calls) < MaxCalls /\ DisconnectCall(t, i)
\* the id and the result of a disconnect that returns
DisconnectRecord(t) == [id |-> arg[t].id, kind |-> res[t].kind]
DisconnectReturn(t) ==
    /\ op[t] = "disconnect"
    /\ ReturnWith(t, Append(calls, DisconnectRecord(t)))

DisconnectNext ==
    \E t \in 1..NumCallers :
        \/ \E i \in Ids : NextDisconnectCall(t, i)
        \/ DisconnectLock(t)
        \/ DisconnectRemove(t)
        \/ DisconnectReturn(t)

DisconnectSpec == DisconnectInit /\ [][DisconnectNext]_vars

\* populations of both cache directories of the connected session. The blocking pool
\* runs every closure it was given: a spawned sweep is not left waiting for
\* ever, and evict_cache_lru has no blocking call
FlagNext ==
    \/ \E t \in 1..NumReqs :
          \/ \E p \in Paths, r \in {None, 0} : ThumbCall(t, 1, p, r)
          \/ ImageCall(t, 1, 1, None)
          \/ GetLock(t)
          \/ GetLookup(t)
          \/ CacheStep(t)
          \/ SftpCall(t)
          \/ SemAcquire(t)
          \/ ChannelOpen(t)
          \/ RequestSubsystem(t)
          \/ Handshake(t)
          \/ Return(t)
    \/ \E w \in 1..NumSlots : SweepStep(w)

FlagSpec ==
    /\ DirsInit
    /\ [][FlagNext]_vars
    /\ \A w \in 1..NumSlots : WF_vars(SweepStep(w))

\* ---------------------------------------- sftp_save_file's choice of local path
\* the save directory, a third local directory next to the two caches
SaveDir == "downloads"

Digits == <<"0", "1", "2", "3", "4", "5", "6", "7", "8", "9">>
\* format!("{counter}"): the decimal digits of a u32
RECURSIVE Decimal(_)
Decimal(n) ==
    IF n < 10 THEN <<Digits[n + 1]>>
    ELSE Decimal(n \div 10) \o <<Digits[(n % 10) + 1]>>

\* Path::file_stem and Path::extension of a file name: the name is split at its
\* last '.', unless it is ".." or that '.' is its first character
HasExtension(n) == n # <<".", ".">> /\ LastDot(n) > 1
FileStem(n) == IF HasExtension(n) THEN SubSeq(n, 1, LastDot(n) - 1) ELSE n
Extension(n) == IF HasExtension(n) THEN SubSeq(n, LastDot(n) + 1, Len(n)) ELSE <<>>

\* "{stem} ({counter})" or "{stem} ({counter}).{ext}"
NewName(n, counter) ==
    IF Extension(n) = <<>>
    THEN FileStem(n) \o <<" ", "(">> \o Decimal(counter) \o <<")">>
    ELSE FileStem(n) \o <<" ", "(">> \o Decimal(counter) \o <<")", ".">> \o Extension(n)

\* the loop from counter on: the first new name that does not exist in dir
RECURSIVE FirstFree(_, _, _)
FirstFree(dir, n, counter) ==
    IF NewName(n, counter) \notin DOMAIN dir THEN NewName(n, counter)
    ELSE FirstFree(dir, n, counter + 1)

\* local_path: save_dir.join(file_name), replaced by the loop's result if it
\* exists
LocalPath(dir, n) == IF n \in DOMAIN dir THEN FirstFree(dir, n, 1) ELSE n

\* the file names asked for, and the files the save directory may hold at first
LocalNames == {<<"a">>, <<"a", ".", "t">>}
OldNames == {<<"a", ".", "t">>, NewName(<<"a", ".", "t">>, 1)}
OldFile == [size |-> 0, mtime |-> 0, writers |-> {}]

\* sftp_save_file up to its first await: the local path is chosen from the
\* directory as it is now, then the session is looked up
SaveFileCall(t, id, path, n) ==
    /\ pc[t] = "idle"
    /\ Cardinality(DOMAIN files[SaveDir]) < NumFiles
    /\ pc' = [pc EXCEPT ![t] = "g_lock"]
    /\ op' = [op EXCEPT ![t] = "save"]
    /\ arg' = [arg EXCEPT ![t] = [NoArg EXCEPT !.id = id]]
    /\ farg' = [farg EXCEPT ![t] =
                  [path |-> path, data |-> <<>>, max |-> 0, entries |-> <<>>,
                   name |-> n, local |-> LocalPath(files[SaveDir], n)]]
    /\ stale' = [stale EXCEPT ![t] = id \in disconnected]
    /\ UNCHANGED <<regVars, cellVars, cacheVars, creq, loc, res, held, sres, regHist>>
    /\ UNCHANGED <<server, uploaded, fout, calls>>

\* save_file: tokio::fs::write(local_path, &data) creates the file or truncates
\* the one that is there and writes the data; a failure may leave it empty;
\* the command returns local_str
SaveFileWrite(t) ==
    /\ pc[t] = "v_write"
    /\ op[t] = "save"
    /\ LET l == farg[t].local IN
         \/ /\ files' = [files EXCEPT ![SaveDir] =
                           Put(@, l, [size |-> 1, mtime |-> now, writers |-> {}])]
            /\ fout' = [fout EXCEPT ![t] = l]
            /\ Finish(t, Ok)
         \/ /\ \/ UNCHANGED files
               \/ files' = [files EXCEPT ![SaveDir] =
                              Put(@, l, [size |-> 0, mtime |-> now, writers |-> {}])]
            /\ UNCHANGED fout
            /\ Finish(t, Err("Sftp", "Failed to write local file"))
    /\ UNCHANGED <<evicting, sweeps, now, ioFails>>
    /\ UNCHANGED <<regVars, cellVars, creq, op, arg, loc, held, sres, stale, regHist>>
    /\ UNCHANGED <<server, uploaded, farg, calls>>

\* one connected session, empty caches, and a save directory holding some of
\* OldNames
SaveInit ==
    /\ InitTasks(NumTasks)
    /\ \E S \in SUBSET OldNames :
          files = [d \in Dirs \cup {SaveDir} |->
                     IF d = SaveDir THEN [n \in S |-> OldFile] ELSE NoFiles]
    /\ evicting = [d \in Dirs |-> FALSE]
    /\ sweeps = [w \in Slots |-> NoSweep]
    /\ now = 0
    /\ ioFails = [d \in Dirs |-> 0]
    /\ server = NoServer
    /\ uploaded = NoServer
    /\ sessions = [i \in {1} |-> [host |-> "h1", user |-> "u1", handle |-> "authed"]]
    /\ nextId = 1
    /\ returned = <<1>>

\* NumTasks handlers saving remote path 1 under the names of LocalNames
SaveNext ==
    \E t \in 1..NumTasks :
        \/ \E n \in LocalNames : SaveFileCall(t, 1, 1, n)
        \/ GetLock(t)
        \/ GetLookup(t)
        \/ SftpCall(t)
        \/ SemAcquire(t)
        \/ SemWake(t)
        \/ ChannelOpen(t)
        \/ RequestSubsystem(t)
        \/ Handshake(t)
        \/ SaveRead(t)
        \/ SaveFileWrite(t)
        \/ Return(t)

SaveSpec == SaveInit /\ [][SaveNext]_vars

\* sessions to two hosts, and one handler asking for the thumbnail and the
\* cached image of the same path through either of them
HostsInit ==
    /\ InitTasks(NumReqs)
    /\ InitCache
    /\ sessions = [i \in Ids |-> [host |-> IF i = 1 THEN "h1" ELSE "h2",
                                  user |-> "u1", handle |-> "authed"]]
    /\ nextId = MaxIds
    /\ returned = [i \in Ids |-> i]

\* a cache command that returns: its command, path, the host of the session it
\* was given, and what it did (hit, dl: downloaded, wrote: completed its write)
HostRecord(t) ==
    [op |-> op[t], path |-> creq[t].path,
     host |-> IF held[t] \in DOMAIN sessions THEN sessions[held[t]].host ELSE "",
     ok |-> res[t].kind = "Ok", hit |-> creq[t].hit,
     dl |-> creq[t].data # 0, wrote |-> creq[t].wrote]

NextCacheCall(t, o, i, r) ==
    /\ Len(calls) < MaxCalls
    /\ IF o = "thumb" THEN ThumbCall(t, i, 1, r) ELSE ImageCall(t, i, 1, r)

CacheReturn(t) ==
    /\ op[t] \in CacheOps
    /\ ReturnWith(t, Append(calls, HostRecord(t)))

\* one file per directory never exceeds the budget, so a sweep enumerates the
\* directory and ends without a file to delete
HostsNext ==
    \/ \E t \in 1..NumReqs :
          \/ \E o \in CacheOps, i \in Ids, r \in RemoteTimes : NextCacheCall(t, o, i, r)
          \/ GetLock(t)
          \/ GetLookup(t)
          \/ CacheStep(t)
          \/ SftpCall(t)
          \/ SemAcquire(t)
          \/ ChannelOpen(t)
          \/ RequestSubsystem(t)
          \/ Handshake(t)
          \/ CacheReturn(t)
    \/ \E w \in 1..NumSlots :
          \/ SweepEnumerate(w)
          \/ SweepClear(w)
    \/ Tick

HostsSpec == HostsInit /\ [][HostsNext]_vars

\* sftp_read_file_preview on the connected session, for every file content of at
\* most MaxLen bytes and every max_bytes up to one more
PreviewNext ==
    \E t \in 1..NumReqs :
        \/ \E i \in Ids, m \in 0..(MaxLen + 1) : PreviewCall(t, i, m)
        \/ GetLock(t)
        \/ GetLookup(t)
        \/ SftpCall(t)
        \/ SemAcquire(t)
        \/ ChannelOpen(t)
        \/ RequestSubsystem(t)
        \/ Handshake(t)
        \/ Preview(t)
        \/ Return(t)

PreviewSpec == FileInit /\ [][PreviewNext]_vars

\* ------------------------------------------------------------------ claims
\* the stages of connect that can fail, and the errors each of them returns
ConnectStages == {"c_vault", "c_decode", "c_resolve", "c_connect", "c_auth"}
StageErrors(p) ==
    CASE p = "c_vault" -> {Err("KeyStore", "Key not found"),
                           Err("KeyStore", "vault unreadable")}
      [] p = "c_decode" -> {Err("Ssh", "Failed to decode key")}
      [] p = "c_resolve" -> {Err("Ssh", "Failed to resolve host"),
                             Err("Ssh", "Could not resolve host address")}
      [] p = "c_connect" -> {Err("Ssh", "Connection failed")}
      [] p = "c_auth" -> {Err("Ssh", "Auth failed"),
                          Err("Ssh", "Authentication rejected by server")}

InitPcs == {"s_open", "s_subsys", "s_handshake"}

\* C1: on a session none of whose setup steps has failed, the init closure runs
\* once, one channel is opened, and every sftp() call that returned Ok, racing
\* first-time callers and later ones alike, got the channel stored in the cell.
C1_SetupRunsOnce ==
    \A s \in Ids : fails[s] = 0 =>
        /\ runs[s] <= 1
        /\ opened[s] <= 1
        /\ \A t \in Tasks : (held[t] = s /\ sres[t].kind = "Ok") =>
              /\ runs[s] = 1
              /\ opened[s] = 1
              /\ cell[s].value = 1
              /\ sres[t].ch = cell[s].value

\* all callers raced on the fresh session: one ran the setup, others queued for
\* it, and every one of them holds the channel
C1_Witness ==
    \E s \in Ids :
        /\ fails[s] = 0
        /\ \A t \in Tasks : held[t] = s /\ sres[t].kind = "Ok"
        /\ \E t \in Tasks : sres[t].ran
        /\ Cardinality({t \in Tasks : sres[t].waited}) >= 2

\* C2 as stated: when an initialization attempt fails, every caller queued for it
\* returns that failure in the same step and runs no attempt of its own.
C2_FailureReachesWaiters ==
    [][\A s \in Ids : fails'[s] > fails[s] =>
          \A w \in Tasks : (held[w] = s /\ pc[w] = "s_wait") =>
              (pc'[w] = "ret" /\ res'[w].kind = "Sftp")]_vars

\* C2 amended: a failed attempt is returned to the caller that ran it and to no
\* other; the first queued caller takes the permit over and runs its own attempt
\* within the same call, the other queued callers keep waiting.
C2_WaiterRetries ==
    /\ [](\A t \in Tasks : sres[t].kind = "Sftp" => sres[t].ran)
    /\ [][\A s \in Ids : fails'[s] > fails[s] =>
             \A w \in Tasks : (held[w] = s /\ pc[w] = "s_wait") =>
                 /\ res'[w].kind = "none"
                 /\ sres'[w].kind = "none"
                 /\ IF w = Head(cell[s].queue)
                    THEN pc'[w] = "s_open" /\ runs'[s] = runs[s] + 1
                    ELSE pc'[w] = "s_wait"]_vars

\* a caller that queued behind an attempt which then failed is running its own
C2_Witness ==
    \E t \in Tasks :
        /\ pc[t] \in InitPcs
        /\ sres[t].waited
        /\ fails[held[t]] > 0

\* C3: a failed attempt leaves the cell empty and its semaphore open; a request
\* that then finds the permit free starts a fresh attempt; and whatever sftp()
\* returns as Ok is the channel a successful attempt stored.
C3_FailureNotCached ==
    /\ [](\A t \in Tasks : sres[t].kind = "Ok" =>
             (cell[held[t]].value # 0 /\ sres[t].ch = cell[held[t]].value))
    /\ [][\A s \in Ids : fails'[s] > fails[s] =>
             (cell'[s].value = 0 /\ ~cell'[s].closed)]_vars
    /\ [][\A t \in Tasks :
             (/\ pc[t] = "s_acquire" /\ pc'[t] # "s_acquire"
              /\ fails[held[t]] > 0
              /\ cell[held[t]].value = 0 /\ cell[held[t]].permit = 0)
             => (pc'[t] = "s_open" /\ runs'[held[t]] = runs[held[t]] + 1)]_vars

\* after a failure a later attempt succeeded, and a caller that ran no attempt
\* itself observes that channel
C3_Witness ==
    \E s \in Ids :
        /\ fails[s] > 0
        /\ cell[s].value # 0
        /\ \E t \in Tasks : held[t] = s /\ sres[t].kind = "Ok" /\ ~sres[t].ran

\* C4 as stated: at most one channel is ever opened on a session's transport.
C4_AtMostOneOpened == \A s \in Ids : opened[s] <= 1

\* C4 amended: at most one attempt per session does not fail (so at most one
\* channel is ever stored), attempts never overlap, and the channels opened are
\* at most one more than the failed attempts.
C4_OneChannelStored ==
    \A s \in Ids :
        /\ opened[s] <= runs[s]
        /\ runs[s] <= fails[s] + 1
        /\ Cardinality({t \in Tasks : held[t] = s /\ pc[t] \in InitPcs}) <= 1
        /\ cell[s].value # 0 =>
              /\ cell[s].value = opened[s]
              /\ \A t \in Tasks : held[t] = s => pc[t] \notin InitPcs

\* a second channel was opened after a failed attempt abandoned the first
C4_Witness == \E s \in Ids : opened[s] = 2 /\ cell[s].value = 2

\* C5: disconnect(id) returns Ok exactly when id is registered and then removes
\* that entry and no other; for an unregistered id, one an earlier disconnect
\* removed included, it returns SessionNotFound(id) and the registry is unchanged.
C5_DisconnectNotIdempotent ==
    /\ [][\A t \in Tasks : (pc[t] = "d_remove" /\ pc'[t] = "ret") =>
             IF arg[t].id \in DOMAIN sessions
             THEN /\ res'[t].kind = "Ok"
                  /\ DOMAIN sessions' = DOMAIN sessions \ {arg[t].id}
                  /\ \A i \in DOMAIN sessions' : sessions'[i] = sessions[i]
             ELSE /\ res'[t] = SessionNotFound(arg[t].id)
                  /\ sessions' = sessions]_vars
    /\ [](\A t \in Tasks : (op[t] = "disconnect" /\ pc[t] = "ret") =>
             /\ res[t].kind \in {"Ok", "SessionNotFound"}
             /\ res[t].kind = "Ok" => arg[t].id \notin DOMAIN sessions)

\* a second disconnect of an id that was disconnected before is refused
C5_Witness ==
    \E t \in Tasks :
        /\ op[t] = "disconnect" /\ pc[t] = "ret"
        /\ arg[t].id \in disconnected
        /\ res[t].kind = "SessionNotFound"

\* C6: every registry entry is a complete session (authenticated handle, the
\* caller's host and user); an entry is gained only by the insert step of a
\* connect whose key decoded, whose address resolved and whose transport
\* authenticated, as one step that adds that one entry with an empty channel
\* slot; a connect that fails leaves the registry as it was.
C6_NoPartialSession ==
    /\ [](\A i \in DOMAIN sessions :
             /\ sessions[i].handle = "authed"
             /\ <<sessions[i].host, sessions[i].user>> \in Logins)
    /\ [][(DOMAIN sessions' \ DOMAIN sessions # {}) =>
             \E t \in Tasks :
                 /\ pc[t] = "c_insert" /\ pc'[t] = "ret"
                 /\ loc[t].key = "usable" /\ loc[t].addr = "resolved"
                 /\ loc[t].handle = "authed"
                 /\ res'[t] = OkId(loc[t].id)
                 /\ DOMAIN sessions' = DOMAIN sessions \cup {loc[t].id}
                 /\ \A i \in DOMAIN sessions : sessions'[i] = sessions[i]
                 /\ sessions'[loc[t].id] = [host |-> arg[t].host, user |-> arg[t].user,
                                            handle |-> "authed"]
                 /\ cell[loc[t].id] = EmptyCell]_vars
    /\ [][\A t \in Tasks :
             (op[t] = "connect" /\ res[t].kind = "none" /\ res'[t].kind \in ErrKinds)
             => sessions' = sessions]_vars

\* one connect has registered its session while another was rejected by the server
C6_Witness ==
    /\ DOMAIN sessions # {}
    /\ \E t \in Tasks :
          /\ op[t] = "connect" /\ pc[t] = "ret"
          /\ res[t] = Err("Ssh", "Authentication rejected by server")

Triples(r) == {<<i, r[i].host, r[i].user>> : i \in DOMAIN r}

\* C8: the list a list_sessions call returns is the (id, host, user) image of
\* the registry as it was at one instant between the call and the return.
C8_ConsistentSnapshot ==
    \A t \in Tasks : (op[t] = "list" /\ pc[t] = "ret") =>
        /\ res[t].kind = "Ok"
        /\ \E r \in regHist[t] : res[t].list = Triples(r)

\* a list_sessions call returned a non-empty list although the registry changed
\* between its call and its return
C8_Witness ==
    \E t \in Tasks :
        /\ op[t] = "list" /\ pc[t] = "ret"
        /\ res[t].list # {}
        /\ Cardinality(regHist[t]) >= 2

NetworkPcs == {"c_resolve", "c_connect", "c_hash", "c_auth", "s_call", "s_acquire",
               "s_wait", "s_open", "s_subsys", "s_handshake", "f_req"}

\* C10: the task holding the registry mutex is never at a network step: it is at
\* the insert, the remove, the lookup or the snapshot.
C10_LockNotHeldAcrossNetwork ==
    lock # 0 =>
        /\ lock \in Tasks
        /\ pc[lock] \notin NetworkPcs
        /\ pc[lock] \in {"c_insert", "d_remove", "g_lookup", "l_iter"}

\* the mutex is held by one task while another waits for the network
C10_Witness ==
    /\ lock # 0
    /\ \E u \in Tasks : u # lock /\ pc[u] \in NetworkPcs

\* C11: a connection test runs the stages of connect and reports Ok exactly when
\* its login was accepted, an error of the stage that failed otherwise; no step
\* of it changes the registry, generates an identifier or returns one.
C11_TestRetainsNothing ==
    /\ [][\A t \in Tasks :
            op[t] = "test" /\ pc'[t] # pc[t] =>
                /\ sessions' = sessions
                /\ nextId' = nextId
                /\ returned' = returned
                /\ pc[t] \in ConnectStages /\ pc'[t] = "ret" =>
                       res'[t] \in StageErrors(pc[t])]_vars
    /\ [](\A t \in Tasks :
            op[t] = "test" /\ pc[t] = "ret" =>
                /\ res[t].id = 0
                /\ res[t].kind = "Ok" <=> loc[t].handle = "authed")

\* a connection test has succeeded while a session was registered, and the
\* registry still holds just that session
C11_Witness ==
    \E t \in Tasks :
        /\ op[t] = "test" /\ pc[t] = "ret" /\ res[t].kind = "Ok"
        /\ DOMAIN sessions = {1}
        /\ nextId = 1

\* a connect that stopped because the address did not resolve
Unresolved(t) ==
    /\ op[t] = "connect" /\ pc[t] = "ret" /\ res[t].kind \in ErrKinds
    /\ loc[t].key # "" /\ loc[t].addr = ""
\* a connect that stopped because the stored key could not be decoded
KeyRefused(t) ==
    /\ op[t] = "connect" /\ pc[t] = "ret" /\ res[t].kind \in ErrKinds
    /\ loc[t].pem # "" /\ loc[t].key = ""

Listed(w) == {sweeps[w].list[i] : i \in DOMAIN sweeps[w].list}

\* C13: when a sweep that read the directory and met no delete failure has
\* returned, with nothing written meanwhile, the directory's total is at most the
\* budget if it was above it, and nothing was removed if it was within it.
C13_SweepRestoresBudget ==
    \A w \in Slots :
        sweeps[w].pc = "clear" /\ sweeps[w].listed /\ sweeps[w].failed = {} =>
            LET d == sweeps[w].dir
                left == TotalSize(ReadDir(d)) IN
            /\ left = sweeps[w].total - sweeps[w].freed
            /\ sweeps[w].total > MaxBytes(d) => left <= MaxBytes(d)
            /\ sweeps[w].total <= MaxBytes(d) =>
                   sweeps[w].removed = {} /\ left = sweeps[w].total

\* a sweep of a directory above its budget has returned after removing two files
C13_Witness ==
    \E w \in Slots :
        /\ sweeps[w].pc = "clear" /\ sweeps[w].listed /\ sweeps[w].failed = {}
        /\ sweeps[w].total > MaxBytes(sweeps[w].dir)
        /\ Cardinality(sweeps[w].removed) = 2
        /\ DOMAIN files[sweeps[w].dir] # {}

\* C14: a file is removed only if every listed file with a strictly older mtime
\* was removed or failed to delete, and only while the bytes freed so far are
\* below total size minus budget.
C14_OldestFirstUntilFreed ==
    /\ [](\A w \in Slots : \A a, b \in Listed(w) :
            a.name \in sweeps[w].removed /\ b.mtime < a.mtime =>
                b.name \in sweeps[w].removed \cup sweeps[w].failed)
    /\ [][\A w \in Slots :
            sweeps'[w].removed \ sweeps[w].removed # {} =>
                sweeps[w].freed < sweeps[w].total - MaxBytes(sweeps[w].dir)]_vars

\* a sweep has returned having removed an older file and kept a newer one
C14_Witness ==
    \E w \in Slots : \E a, b \in Listed(w) :
        /\ sweeps[w].pc = "clear"
        /\ a.name \in sweeps[w].removed
        /\ b.name \notin sweeps[w].removed \cup sweeps[w].failed
        /\ a.mtime < b.mtime
        /\ sweeps[w].freed >= sweeps[w].total - MaxBytes(sweeps[w].dir)

\* C15: a failed remove_file leaves the file in place, adds nothing to freed and
\* moves the sweep on to the next file of the vector; a sweep that could not read
\* the directory removes nothing; a sweep that read it ends only once enough is
\* freed or every file was tried; no step of a sweep touches a command's result.
C15_DeleteFailureSkipped ==
    /\ [][\A w \in Slots :
            /\ sweeps'[w].failed \ sweeps[w].failed # {} =>
                   /\ sweeps'[w].pc = "delete"
                   /\ sweeps'[w].idx = sweeps[w].idx + 1
                   /\ sweeps'[w].freed = sweeps[w].freed
                   /\ files' = files
            /\ sweeps'[w] # sweeps[w] => res' = res /\ pc' = pc]_vars
    /\ [](\A w \in Slots :
            sweeps[w].pc = "clear" =>
                IF sweeps[w].listed
                THEN \/ sweeps[w].freed >= sweeps[w].total - MaxBytes(sweeps[w].dir)
                     \/ sweeps[w].idx > Len(sweeps[w].list)
                ELSE sweeps[w].removed = {} /\ sweeps[w].freed = 0)

\* a sweep has returned after failing to delete the oldest file and removing a
\* newer one
C15_Witness ==
    \E w \in Slots : \E a, b \in Listed(w) :
        /\ sweeps[w].pc = "clear"
        /\ a.name \in sweeps[w].failed /\ a.name \in DOMAIN files[sweeps[w].dir]
        /\ b.name \in sweeps[w].removed
        /\ a.mtime < b.mtime

\* the eviction closures spawned for directory d and not yet finished
SweepsOf(d) == {w \in Slots : sweeps[w].pc # "free" /\ sweeps[w].dir = d}

C17_SweepSparesOpenFiles ==
    /\ [][\A w \in Slots :
            sweeps[w].pc = "spawned" /\ sweeps'[w].listed =>
                \A n \in DOMAIN files[sweeps[w].dir] :
                    files[sweeps[w].dir][n].writers = {}]_vars
    /\ [][\A d \in Dirs : \A n \in DOMAIN files[d] :
            files[d][n].writers # {} => n \in DOMAIN files'[d]]_vars

\* C18: the trigger leaves the flag set and a closure spawned for the directory,
\* spawning one when the flag was clear, and returns Ok in the same step; every
\* command that completed its cache write went through the trigger; the trigger
\* is never blocked, and neither is a spawned closure.
C18_SweepScheduledNotAwaited ==
    /\ [][\A t \in Tasks :
            pc[t] = "k_sched" /\ pc'[t] = "ret" =>
                LET d == DirOf(op[t]) IN
                /\ evicting'[d]
                /\ \E w \in Slots : sweeps'[w].pc # "free" /\ sweeps'[w].dir = d
                /\ ~evicting[d] =>
                       \E w \in Slots : /\ sweeps[w].pc = "free"
                                        /\ sweeps'[w].pc = "spawned"
                                        /\ sweeps'[w].dir = d
                /\ res'[t].kind = "Ok"]_vars
    /\ [](\A t \in Tasks :
            /\ op[t] \in CacheOps /\ pc[t] = "ret" /\ creq[t].wrote =>
                   creq[t].sched # "none"
            /\ pc[t] = "k_sched" => ENABLED TrySchedule(t)
            /\ pc[t] = "ret" => ENABLED Return(t))
    /\ [](\A w \in Slots : sweeps[w].pc # "free" => ENABLED SweepStep(w))

\* a command has returned Ok after its write while the closure it spawned has
\* not started yet
C18_Witness ==
    \E t \in Tasks :
        /\ pc[t] = "ret" /\ res[t].kind = "Ok"
        /\ creq[t].wrote /\ creq[t].sched = "started"
        /\ \E w \in SweepsOf(DirOf(op[t])) : sweeps[w].pc = "spawned"

\* a cache command is at work on directory d
Populating(d) ==
    \E t \in Tasks : op[t] \in CacheOps /\ DirOf(op[t]) = d /\ pc[t] \notin {"idle", "ret"}

\* C19 as stated: whenever no population and no sweep of a directory is in
\* progress and no read_dir or remove_file has failed in it, its files total at
\* most its budget.
C19_CapEnforcedWhenIdle ==
    \A d \in Dirs :
        ~Populating(d) /\ SweepsOf(d) = {} /\ ~evicting[d] /\ ioFails[d] = 0 =>
            TotalSize(ReadDir(d)) <= MaxBytes(d)

\* the positions at which a cache command examines its cache file
CheckPcs == {"k_exists", "k_meta", "k_read"}

\* the entry of the command's path exists and is fresh by the rule
EntryFresh(t) ==
    LET d == DirOf(op[t])
        n == creq[t].path IN
    /\ n \in DOMAIN files[d]
    /\ creq[t].remote = None \/ files[d][n].mtime >= creq[t].remote

\* C20: a cache command returns from its examination only on an entry that exists
\* and is fresh by the rule, with Ok, having made no sftp() call and changed no
\* file; it goes on to sftp() only when the entry is missing or stale, and never
\* past a missing or stale entry; a command that returned Ok without a hit has
\* got the channel and downloaded, and its completed write replaces the entry
\* with the downloaded data at the current time.
C20_FreshnessRule ==
    /\ [][\A t \in Tasks :
            op[t] \in CacheOps /\ pc[t] \in CheckPcs /\ pc'[t] # pc[t] =>
                /\ pc'[t] = "ret" =>
                       /\ EntryFresh(t)
                       /\ res'[t].kind = "Ok" /\ creq'[t].hit
                       /\ sres[t].kind = "none"
                       /\ files' = files /\ cell' = cell /\ opened' = opened
                /\ pc'[t] = "s_call" => ~EntryFresh(t)
                /\ ~EntryFresh(t) => pc'[t] \in {"s_call", "k_meta"}]_vars
    /\ [][\A t \in Tasks :
            pc[t] = "k_writing" /\ creq'[t].wrote =>
                LET d == DirOf(op[t])
                    n == creq[t].path IN
                n \in DOMAIN files[d] /\ t \in files[d][n].writers =>
                    /\ files'[d][n].size = creq[t].data
                    /\ files'[d][n].mtime = now]_vars
    /\ [](\A t \in Tasks :
            op[t] \in CacheOps /\ pc[t] = "ret" /\ res[t].kind = "Ok" =>
                IF creq[t].hit
                THEN sres[t].kind = "none" /\ creq[t].data = 0 /\ ~creq[t].wrote
                ELSE sres[t].kind = "Ok" /\ creq[t].data # 0)

\* a command called with a remote_mtime equal to its entry's mtime has returned
\* the entry while the session's channel was never set up
C20_Witness ==
    \E t \in Tasks :
        /\ op[t] \in CacheOps /\ pc[t] = "ret" /\ creq[t].hit
        /\ creq[t].remote # None
        /\ creq[t].path \in DOMAIN files[DirOf(op[t])]
        /\ files[DirOf(op[t])][creq[t].path].mtime = creq[t].remote
        /\ sres[t].kind = "none"
        /\ cell[held[t]].value = 0 /\ opened[held[t]] = 0

\* C21 as stated: of two successive get_thumbnail calls with the same
\* remote_mtime the first of which downloads and caches, the second downloads
\* nothing, and a following call with a strictly greater remote_mtime downloads.
C21_OneDownloadPerMtime ==
    \A k \in 1..Len(calls) :
        /\ k + 1 <= Len(calls) =>
              LET a == calls[k]
                  b == calls[k + 1] IN
              a.ok /\ b.ok /\ a.dl /\ a.wrote /\ a.remote = b.remote => ~b.dl
        /\ k + 2 <= Len(calls) =>
              LET a == calls[k]
                  b == calls[k + 1]
                  c == calls[k + 2] IN
              /\ a.ok /\ b.ok /\ c.ok /\ a.dl /\ a.wrote /\ a.remote = b.remote
              /\ a.remote # None /\ c.remote > a.remote
              => c.dl

\* C21, amended: when a call returns Ok leaving its cache entry with modification
\* time T, the next call for the path downloads exactly when its remote_mtime is
\* supplied and greater than T; so after a download cached at T, a second call
\* with the same remote_mtime m is a pure hit when m is not supplied or m <= T,
\* and a third call with m' > m downloads when m' > T.
C21_OneDownloadWhileFresh ==
    \A k \in 1..Len(calls) :
        /\ k + 1 <= Len(calls) =>
              LET a == calls[k]
                  b == calls[k + 1] IN
              /\ a.ok /\ b.ok /\ a.mt # None =>
                    (b.dl <=> b.remote # None /\ b.remote > a.mt)
              /\ a.ok /\ b.ok /\ a.dl /\ a.wrote /\ a.remote = b.remote
                 /\ (a.remote = None \/ a.remote <= a.mt)
                 => ~b.dl /\ ~b.wrote /\ b.mt = a.mt
        /\ k + 2 <= Len(calls) =>
              LET a == calls[k]
                  b == calls[k + 1]
                  c == calls[k + 2] IN
              /\ a.ok /\ b.ok /\ c.ok /\ a.dl /\ a.wrote /\ a.remote = b.remote
              /\ a.remote # None /\ a.remote <= a.mt
              /\ c.remote > a.mt
              => c.dl

\* a download cached at time 0 for remote_mtime 0, a pure hit for the same
\* remote_mtime, then a download for remote_mtime 1
C21_Witness ==
    /\ Len(calls) = 3
    /\ calls[1].ok /\ calls[1].dl /\ calls[1].wrote
    /\ calls[1].remote = 0 /\ calls[1].mt = 0
    /\ calls[2].ok /\ ~calls[2].dl /\ calls[2].remote = 0
    /\ calls[3].ok /\ calls[3].dl /\ calls[3].remote = 1

\* the positions at which a command is writing a local file
WritePcs == {"k_write", "k_writing", "v_write"}
WriteErrors == {"Failed to write cached image", "Failed to write local file"}

\* task t's command fails in this step
Fails(t) ==
    /\ pc[t] # "ret" /\ pc'[t] = "ret"
    /\ op'[t] \in LocalOps
    /\ res'[t].kind # "Ok"

\* C22 as stated: a failed write of the cached or saved file is returned as Io,
\* a failed image decode, resize or encode as Image, any other failure after the
\* lookup as Sftp, and an unknown session id as SessionNotFound.
C22_KindByCause ==
    [][\A t \in Tasks : Fails(t) =>
          res'[t].kind =
             CASE pc[t] = "g_lookup" -> "SessionNotFound"
               [] pc[t] \in WritePcs -> "Io"
               [] pc[t] = "f_req" /\ res'[t].msg \in ImageErrors -> "Image"
               [] OTHER -> "Sftp"]_vars

\* C22, amended: an unknown session id is returned as SessionNotFound and every
\* other failure of a caching or saving command as Sftp, its message naming the
\* step that failed: the directory creation, the channel setup, the download,
\* the image processing or the local write.
C22_SftpKindWithStage ==
    [][\A t \in Tasks : Fails(t) =>
          CASE pc[t] = "g_lookup" ->
                  res'[t].kind = "SessionNotFound" /\ arg[t].id \notin DOMAIN sessions
            [] pc[t] = "idle" ->
                  res'[t].kind = "Sftp" /\ res'[t].msg = DirErrors(op'[t])
            [] pc[t] \in WritePcs ->
                  res'[t].kind = "Sftp" /\ res'[t].msg \in WriteErrors
            [] pc[t] = "f_req" ->
                  /\ res'[t].kind = "Sftp"
                  /\ res'[t].msg \in DownloadErrors(op[t]) \cup {"Failed to download file"}
            [] OTHER ->
                  res'[t].kind = "Sftp" /\ res'[t].msg \notin WriteErrors]_vars

\* save_file has downloaded the file and failed to write it locally
C22_Witness ==
    \E t \in Tasks :
        /\ pc[t] = "ret" /\ op[t] = "save" /\ sres[t].kind = "Ok"
        /\ res[t] = Err("Sftp", "Failed to write local file")

\* C23: a step of a sweep changes no file and no flag of the other directory;
\* a sweep that has listed its directory deletes exactly when the listed total
\* exceeds that directory's own budget, and a sweep none of whose deletes failed
\* ends with the listed total minus what it freed within that budget; a trigger
\* for a directory whose flag is clear spawns a sweep of it whatever the other
\* directory's flag is; a spawned sweep can always take its next step.
C23_CachesIndependent ==
    /\ [][\A w \in Slots : \A x \in Dirs :
            sweeps'[w] # sweeps[w] /\ sweeps[w].pc # "free" /\ x # sweeps[w].dir =>
                files'[x] = files[x] /\ evicting'[x] = evicting[x]]_vars
    /\ [][\A w \in Slots :
            sweeps[w].pc = "spawned" /\ sweeps'[w].listed =>
                (sweeps'[w].pc = "delete" <=>
                     sweeps'[w].total > MaxBytes(sweeps[w].dir))]_vars
    /\ [](\A w \in Slots :
            sweeps[w].pc = "clear" /\ sweeps[w].listed /\ sweeps[w].failed = {} =>
                sweeps[w].total - sweeps[w].freed <= MaxBytes(sweeps[w].dir))
    /\ [][\A t \in Tasks :
            pc[t] = "k_sched" /\ pc'[t] = "ret" /\ ~evicting[DirOf(op[t])] =>
                \E w \in Slots : /\ sweeps[w].pc = "free"
                                 /\ sweeps'[w].pc = "spawned"
                                 /\ sweeps'[w].dir = DirOf(op[t])]_vars
    /\ [](\A w \in Slots : sweeps[w].pc # "free" => ENABLED SweepStep(w))

\* a population of one directory has started a sweep of it while a sweep of the
\* other directory is deleting
C23_Witness ==
    \E t \in Tasks : \E v, w \in Slots :
        /\ pc[t] = "ret" /\ creq[t].sched = "started"
        /\ sweeps[v].pc = "spawned" /\ sweeps[v].dir = DirOf(op[t])
        /\ sweeps[w].pc = "delete" /\ sweeps[w].dir # DirOf(op[t])

\* the number of positions of sequence s that hold x
Count(s, x) == Cardinality({i \in 1..Len(s) : s[i] = x})

\* the listing a list_dir call returned, and the reply it was built from
Listing(t) == fout[t]
Reply(t) == farg[t].entries
ListingDone(t) == pc[t] = "ret" /\ op[t] = "listdir" /\ res[t].kind = "Ok"

\* C24: the listing holds no "." and no "..", holds every other entry of the
\* reply as often as the reply does and nothing else, has no non-directory before
\* a directory, and within the directories and within the non-directories has
\* the lowercased names in non-descending order.
C24_ListingSorted ==
    \A t \in Tasks : ListingDone(t) =>
        LET out == Listing(t)
            reply == Reply(t) IN
        /\ \A i \in 1..Len(out) : ~IsDotName(out[i].name)
        /\ \A e \in DirEntries :
              Count([i \in 1..Len(out) |-> [name |-> out[i].name,
                                            is_dir |-> out[i].is_dir]], e)
                = IF IsDotName(e.name) THEN 0 ELSE Count(reply, e)
        /\ \A i, j \in 1..Len(out) : i < j =>
              /\ out[j].is_dir => out[i].is_dir
              /\ out[i].is_dir = out[j].is_dir =>
                    ~StrLess(ToLower(out[j].name), ToLower(out[i].name))

\* the reply ["b.txt", "A" (a directory), ".", ".."] was listed as ["A", "b.txt"]
C24_Witness ==
    \E t \in Tasks :
        /\ ListingDone(t)
        /\ Reply(t) = <<[name |-> <<"b", ".", "t", "x", "t">>, is_dir |-> FALSE],
                        [name |-> <<"A">>, is_dir |-> TRUE],
                        [name |-> <<".">>, is_dir |-> TRUE],
                        [name |-> <<".", ".">>, is_dir |-> TRUE]>>
        /\ Len(Listing(t)) = 2
        /\ Listing(t)[1].name = <<"A">>
        /\ Listing(t)[2].name = <<"b", ".", "t", "x", "t">>

\* the name has a '.', and what follows its last '.' is on the allow-list when
\* lowercased
HasImageExtension(n) ==
    /\ \E i \in 1..Len(n) : n[i] = "."
    /\ ToLower(SubSeq(n, LastDot(n) + 1, Len(n))) \in ImageExts

\* C25 as stated: an entry of a listing is marked as an image exactly when it is
\* not a directory and its name has an extension on the allow-list, compared
\* case-insensitively; a name with no dot at all is never marked.
C25_ImageByExtension ==
    \A t \in Tasks : ListingDone(t) =>
        \A i \in 1..Len(Listing(t)) :
            Listing(t)[i].is_image <=>
                ~Listing(t)[i].is_dir /\ HasImageExtension(Listing(t)[i].name)

\* the bytes a base64 text stands for
RECURSIVE Base64Decode(_)
Base64Decode(c) ==
    IF Len(c) < 4 THEN <<>>
    ELSE LET b1 == c[1] * 4 + c[2] \div 16
             b2 == (c[2] % 16) * 16 + c[3] \div 4
             b3 == (c[3] % 4) * 64 + c[4]
         IN IF c[3] = Pad THEN <<b1>>
            ELSE IF c[4] = Pad THEN <<b1, b2>>
            ELSE <<b1, b2, b3>> \o Base64Decode(SubSeq(c, 5, Len(c)))

PreviewDone(t) == pc[t] = "ret" /\ op[t] = "preview" /\ res[t].kind = "Ok"
\* the first min(file length, max_bytes) bytes of the file
FirstBytes(d, max) == SubSeq(d, 1, IF Len(d) < max THEN Len(d) ELSE max)

\* C26: for every file content and every max_bytes, read_file_preview reports
\* total_size equal to the file length, truncated equal to (file length >
\* max_bytes), and a preview made of exactly the first min(file length,
\* max_bytes) bytes: those bytes as text when the slice is classified as text,
\* their base64 encoding otherwise
C26_PreviewIsPrefix ==
    \A t \in DOMAIN pc :
        PreviewDone(t) =>
            LET d == farg[t].data
                max == farg[t].max
                out == fout[t]
                first == FirstBytes(d, max)
            IN /\ out.total_size = Len(d)
               /\ out.truncated = (Len(d) > max)
               /\ out.is_text = (\A i \in 1..Len(first) : IsTextByte(first[i]))
               /\ out.is_text => out.content = first
               /\ ~out.is_text => Base64Decode(out.content) = first

\* task t's download_file reads the path in this step
Downloads(t) == pc[t] = "f_req" /\ op[t] = "download" /\ pc'[t] = "ret" /\ res'[t].kind = "Ok"

\* C27: after upload_file(session, path, data) returned success, with no other
\* write to the path (another upload's create or write, a delete) from the
\* upload's create on, download_file on the same session and path returns
\* bytes identical to data
C27_DownloadReturnsUpload ==
    [][\A t \in DOMAIN pc :
          LET p == farg[t].path IN
          (Downloads(t) /\ p \in DOMAIN uploaded /\ uploaded[p].done)
              => fout'[t] = uploaded[p].data]_vars

\* a download returned the one byte that the other handler's upload, the only
\* writer of the path since its create, had put there
C27_Witness ==
    \E t \in DOMAIN pc :
        /\ pc[t] = "ret" /\ op[t] = "download" /\ res[t].kind = "Ok"
        /\ fout[t] = <<65>>
        /\ farg[t].path \in DOMAIN uploaded
        /\ uploaded[farg[t].path] = [by |-> 3 - t, data |-> <<65>>, done |-> TRUE]

\* the session task t's operation is on: the one it holds, the one its connect
\* is building, or the one its id names
OnSession(t) ==
    IF held[t] # 0 THEN held[t]
    ELSE IF op[t] = "connect" THEN loc[t].id
    ELSE arg[t].id
\* the positions of SshSession::sftp() and the request that are not a wait
SftpPcs == {"s_call", "s_acquire", "s_open", "s_subsys", "s_handshake", "f_req"}

\* C28: operations on different sessions are independent: a step of an
\* operation on one session (initializing, using or failing to initialize its
\* SFTP channel, disconnecting it) leaves every other session's registry entry
\* and channel slot unchanged; an operation waits on a channel slot only behind
\* an operation that is setting up the channel of the same session, and is
\* otherwise always able to step
C28_SessionsIndependent ==
    /\ [][\A s \in Ids :
            (\A t \in Tasks : pc'[t] # pc[t] => OnSession(t) # s)
                => /\ (s \in DOMAIN sessions) = (s \in DOMAIN sessions')
                   /\ s \in DOMAIN sessions => sessions'[s] = sessions[s]
                   /\ cell'[s] = cell[s]
                   /\ opened'[s] = opened[s]]_vars
    /\ [](\A t \in Tasks :
            /\ pc[t] = "s_wait" =>
                  LET h == cell[held[t]].permit IN
                  \/ ENABLED SemWake(t)
                  \/ h # 0 /\ held[h] = held[t] /\ pc[h] \in SftpPcs
            /\ pc[t] \in SftpPcs => ENABLED SftpStep(t))

\* one session was disconnected and the other failed a channel setup once
\* while the first one's channel is still in its slot
C28_Witness ==
    \E t \in Tasks, a, b \in Ids :
        /\ a # b
        /\ pc[t] = "ret" /\ op[t] = "disconnect" /\ arg[t].id = a /\ res[t].kind = "Ok"
        /\ cell[a].value # 0
        /\ b \in DOMAIN sessions
        /\ fails[b] = 1

\* task t holds a session that has been disconnected since
HoldsDisconnected(t) == held[t] # 0 /\ held[t] \in disconnected

\* C29: an operation that obtained its session from get_session before a
\* disconnect of the same id is not invalidated by it: the disconnect leaves
\* the operation, its session and the session's channel slot as they are, the
\* operation keeps its session until it returns, can always take its next step
\* and never reports SessionNotFound, and a channel stored in the slot stays
\* there; whoever uses a session's slot holds the session
C29_InFlightSurvivesDisconnect ==
    /\ [][\A t \in Tasks :
            (pc[t] = "d_remove" /\ pc'[t] = "ret") =>
                /\ cell'[arg[t].id] = cell[arg[t].id]
                /\ opened'[arg[t].id] = opened[arg[t].id]
                /\ \A u \in Tasks \ {t} :
                      /\ held'[u] = held[u]
                      /\ pc'[u] = pc[u]
                      /\ res'[u] = res[u]
                      /\ sres'[u] = sres[u]]_vars
    /\ [][\A t \in Tasks :
            /\ (held[t] # 0 /\ held'[t] # held[t]) => (pc[t] = "ret" /\ pc'[t] = "idle")
            /\ (held[t] # 0 /\ cell[held[t]].value # 0)
                  => cell'[held[t]].value = cell[held[t]].value]_vars
    /\ [](\A t \in Tasks :
            /\ pc[t] \in SftpPcs \cup {"s_wait"} => held[t] = arg[t].id /\ held[t] # 0
            /\ HoldsDisconnected(t) =>
                  /\ res[t].kind # "SessionNotFound"
                  /\ pc[t] \in SftpPcs => ENABLED SftpStep(t)
                  /\ pc[t] = "ret" => ENABLED Return(t))

\* a file command that set up the channel of its session and succeeded holds
\* a session that another handler's disconnect removed from the registry
C29_Witness ==
    \E t, u \in Tasks :
        /\ pc[u] = "ret" /\ op[u] = "disconnect" /\ res[u].kind = "Ok"
        /\ held[t] = arg[u].id
        /\ held[t] \notin DOMAIN sessions
        /\ pc[t] = "ret" /\ op[t] = "file" /\ res[t].kind = "Ok"
        /\ sres[t].ran
        /\ cell[held[t]].value # 0

\* the disconnect calls for id i whose result is decided: those that returned
\* and those about to return
DecidedNow(i) == {t \in Tasks : pc[t] = "ret" /\ op[t] = "disconnect" /\ arg[t].id = i}
DecidedBefore(i) == {k \in DOMAIN calls : calls[k].id = i}
Succeeded(i) ==
    Cardinality({t \in DecidedNow(i) : res[t].kind = "Ok"})
    + Cardinality({k \in DecidedBefore(i) : calls[k].kind = "Ok"})
NotFound(i) ==
    Cardinality({t \in DecidedNow(i) : res[t] = SessionNotFound(i)})
    + Cardinality({k \in DecidedBefore(i) : calls[k].kind = "SessionNotFound"})

\* C30: when several disconnect calls for the same registered id run
\* concurrently, exactly one of them returns success and all the others return
\* SessionNotFound, under every interleaving
C30_OneDisconnectWins ==
    \A i \in Ids :
        LET n == Cardinality(DecidedNow(i)) + Cardinality(DecidedBefore(i)) IN
        n > 0 => Succeeded(i) = 1 /\ NotFound(i) = n - 1

\* three disconnects of one id were in progress together and are all decided:
\* one succeeded, two found no session
C30_Witness ==
    \E i \in Ids :
        /\ calls = <<>>
        /\ Cardinality(DecidedNow(i)) = 3
        /\ Succeeded(i) = 1
        /\ NotFound(i) = 2

\* task t's connect names a key that is missing from the vault or that cannot
\* be decoded with the passphrase given
BadKey(t) ==
    /\ op[t] = "connect"
    /\ \/ arg[t].key \notin DOMAIN Vault
       \/ DecodeKey(Vault[arg[t].key], arg[t].pass) = "err"

\* C31: connect retrieves and decodes the stored key before any network step:
\* when the named key is missing from the vault or cannot be decoded, connect
\* fails (KeyStore, or Ssh "Failed to decode key") without resolving the
\* address, without opening a transport connection, without generating an id
\* and without changing the registry
C31_KeyBeforeNetwork ==
    /\ [](\A t \in Tasks :
            BadKey(t) =>
                /\ pc[t] \in {"c_vault", "c_decode", "ret"}
                /\ loc[t].addr = "" /\ loc[t].handle = "none" /\ loc[t].id = 0
                /\ pc[t] = "ret" =>
                      \/ res[t].kind = "KeyStore"
                      \/ res[t] = Err("Ssh", "Failed to decode key"))
    /\ [][\A t \in Tasks :
            (BadKey(t) /\ pc'[t] # pc[t]) =>
                /\ sessions' = sessions
                /\ nextId' = nextId
                /\ returned' = returned]_vars

\* one connect failed on a wrong passphrase and another on a missing key, with
\* nothing resolved, no transport opened and the registry empty
C31_Witness ==
    \E t, u \in Tasks :
        /\ pc[t] = "ret" /\ op[t] = "connect"
        /\ arg[t].key = "k_enc" /\ arg[t].pass = "wrong"
        /\ res[t] = Err("Ssh", "Failed to decode key")
        /\ pc[u] = "ret" /\ op[u] = "connect" /\ arg[u].key = "k_none"
        /\ res[u] = Err("KeyStore", "Key not found")
        /\ loc[t].addr = "" /\ loc[u].addr = ""
        /\ DOMAIN sessions = {}

\* call k populated the entry that call j was served: k completed its write of
\* the same cache file before j, and no call between them downloaded for it
PopulatedFor(k, j) ==
    /\ k < j
    /\ calls[k].op = calls[j].op /\ calls[k].path = calls[j].path
    /\ calls[k].wrote
    /\ \A m \in (k + 1)..(j - 1) :
          ~(calls[m].op = calls[j].op /\ calls[m].path = calls[j].path /\ calls[m].dl)

\* C32: a cache hit in get_thumbnail or cache_image returns content that was
\* populated from the file at the requested path on the host of the session
\* passed to the call: the call that populated the entry went through a
\* session to the same host
C32_HitFromSameHost ==
    \A j \in 1..Len(calls) :
        calls[j].ok /\ calls[j].hit =>
            \A k \in 1..Len(calls) :
                PopulatedFor(k, j) => calls[k].host = calls[j].host

\* a sweep of directory d is scheduled or running on slot w
Sweeping(w, d) == sweeps[w].pc # "free" /\ sweeps[w].dir = d

\* C33: the sweep-in-progress flag of a cache directory is set exactly while a
\* sweep of that directory is scheduled or running; every sweep that is
\* started eventually finishes and clears the flag; and a population that
\* reaches the trigger with the flag clear starts a new sweep
C33_FlagTracksSweep ==
    /\ [](\A d \in Dirs : evicting[d] <=> \E w \in Slots : Sweeping(w, d))
    /\ \A w \in Slots : (sweeps[w].pc # "free") ~> (sweeps[w].pc = "free")
    /\ \A d \in Dirs : evicting[d] ~> ~evicting[d]
    /\ [][\A t \in Tasks :
            (pc[t] = "k_sched" /\ pc'[t] # pc[t] /\ ~evicting[DirOf(op[t])]) =>
                /\ evicting'[DirOf(op[t])]
                /\ \E w \in Slots : ~Sweeping(w, DirOf(op[t]))
                                     /\ sweeps'[w].pc = "spawned"
                                     /\ sweeps'[w].dir = DirOf(op[t])]_vars

\* with the thumbnails of both paths in the directory, written one after the
\* other, the later population found the flag clear (the sweep the earlier one
\* had triggered has finished) and started a new sweep, which is now scheduled
C33_Witness ==
    \E t \in Tasks, w \in Slots :
        /\ pc[t] = "ret" /\ op[t] = "thumb"
        /\ creq[t].wrote /\ creq[t].sched = "started"
        /\ DOMAIN files["thumbnails"] = Paths
        /\ \A n \in Paths : files["thumbnails"][n].size > 0
        /\ sweeps[w].pc = "spawned" /\ sweeps[w].dir = "thumbnails"
        /\ evicting["thumbnails"]

\* task t's cache command downloaded its data and its write of the cache file
\* did not complete
WriteLost(t) == op[t] \in CacheOps /\ creq[t].data # 0 /\ ~creq[t].wrote

\* C34: a failure to write the generated thumbnail to the cache file does not
\* fail get_thumbnail: the call goes on to the sweep trigger, applies it and
\* returns Ok; in cache_image a failure to write the cache file fails the call
\* (Sftp, "Failed to write cached image"), which returns no path, never reaches
\* the trigger and starts no sweep
C34_WriteFailure ==
    /\ [](\A t \in Tasks :
            (WriteLost(t) /\ pc[t] = "ret") =>
                IF op[t] = "thumb"
                THEN res[t].kind = "Ok" /\ creq[t].sched \in {"started", "running"}
                ELSE /\ res[t] = Err("Sftp", "Failed to write cached image")
                     /\ creq[t].sched = "none")
    /\ [][\A t \in Tasks :
            (/\ pc[t] \in {"k_write", "k_writing"}
             /\ pc'[t] \notin {"k_write", "k_writing"}
             /\ ~creq'[t].wrote) =>
                IF op[t] = "thumb"
                THEN pc'[t] = "k_sched" /\ res'[t] = res[t]
                ELSE /\ pc'[t] = "ret"
                     /\ res'[t] = Err("Sftp", "Failed to write cached image")
                     /\ sweeps' = sweeps /\ evicting' = evicting]_vars

\* a get_thumbnail whose cache write failed has returned Ok after starting a
\* sweep, and the thumbnail directory does not hold its file
C34_Witness ==
    \E t \in Tasks :
        /\ WriteLost(t) /\ pc[t] = "ret" /\ op[t] = "thumb"
        /\ res[t].kind = "Ok"
        /\ creq[t].sched = "started"
        /\ creq[t].path \notin DOMAIN files["thumbnails"]

\* task t is a save between its choice of a local path and its return
Saving(t) == op[t] = "save" /\ pc[t] # "idle"

\* C35: sftp_save_file never overwrites an existing local file: the path it
\* chooses (the requested name, or the name with the smallest counter suffix
\* that is free) did not exist when it was chosen, the write goes to a path that
\* does not exist, and concurrent saves with the same file_name have chosen
\* different local paths
C35_NeverOverwrites ==
    /\ [][\A t \in Tasks :
            /\ (pc[t] = "idle" /\ Saving(t)') =>
                 LET dir == files[SaveDir]
                     n == farg'[t].name
                     l == farg'[t].local IN
                   /\ l \notin DOMAIN dir
                   /\ \/ l = n
                      \/ /\ n \in DOMAIN dir
                         /\ \E c \in 1..(Cardinality(DOMAIN dir) + 1) :
                               /\ l = NewName(n, c)
                               /\ \A b \in 1..(c - 1) : NewName(n, b) \in DOMAIN dir
            /\ (Saving(t) /\ pc[t] = "v_write" /\ res'[t] = Ok) =>
                 farg[t].local \notin DOMAIN files[SaveDir]]_vars
    /\ [](\A t, u \in Tasks :
            (t # u /\ Saving(t) /\ Saving(u) /\ farg[t].name = farg[u].name) =>
                farg[t].local # farg[u].local)

====
